---- MODULE Spec2Model ----
(***************************************************************************)
(* Model of the SpeakSpace session router (src/src/server/routers/         *)
(* session.ts) over the Prisma schema (src/prisma/schema.prisma): the      *)
(* session_members and moderation_actions tables, the tRPC mutations that  *)
(* write them and the events they emit on sessionEventEmitter.             *)
(*                                                                         *)
(* Spec     : every mutation runs to completion before the next starts.    *)
(* SpecConc : mutations are split at their awaits and interleave.          *)
(* SpecMsg  : the message router (src/src/server/routers/message.ts): send, *)
(*            getSessionMessages, isTyping and the onNewMessage listeners. *)
(* SpecTyping : the typing indicators of the message router over time:     *)
(*            isTyping, the sweep timer, whoIsTyping and send.             *)
(* SpecRate : the rate limiter of the session page                         *)
(*            (src/src/pages/dashboard/session/[id].tsx).                  *)
(* SpecQueue : the client send queue, useMessageQueue (src/unnamed/part_003), *)
(*            and the page's list of own messages.                         *)
(* SpecBus  : the two event emitters and the subscription procedures of    *)
(*            both routers, with the mutations that emit.                  *)
(* SpecQueueFair : useMessageQueue with its effect, its calls and its      *)
(*            retry timer scheduled fairly.                                *)
(* SpecMute : muteUser, unmuteUser, leave, kickUser and send on one        *)
(*            database while the minutes of a mute pass.                   *)
(***************************************************************************)
EXTENDS Integers, Sequences, FiniteSets, TLC

\* ---------------------------------------------------------------- bounds
NumUsers == 2
MaxSessions == 1
MaxTime == 2
MaxWrites == 3
MaxRequests == 2
MaxMessages == 2
MaxSeconds == 6
MaxRateSeconds == 11
MaxAttempts == 8
MaxQueued == 2

Users == 1..NumUsers
SessionIds == 1..MaxSessions

\* ------------------------------------------------------- schema constants
NULL == 0

UserRole == {"MODERATOR", "EVALUATOR", "PARTICIPANT"}

ModerationActionType == {"BAN", "KICK", "WARNING", "MUTE"}

\* input.durationMinutes: absent (NULL) or a number of minutes
Durations == {NULL, 1}

\* muteUser's durationMinutes: z.number().min(1).max(1440)
MuteDurations == {1}

\* an optional role input left out
NoRole == "NONE"

\* input.role of join: z.nativeEnum(UserRole).optional()
RoleInputs == UserRole \cup {NoRole}

VARIABLES
    session,          \* table sessions: id (= index) -> [creatorId, isActive, title]
    sessionMember,    \* table session_members: id -> row
    moderationAction, \* table moderation_actions, in creation order
    now,              \* Date.now()
    call,             \* the mutation that completed last
    result,           \* what that mutation returned or threw
    emitted,          \* the events that mutation emitted, in order
    writes,           \* how many mutations have written to the database
    req,              \* SpecConc: the mutations in flight
    message,          \* table messages, in creation order
    currentlyTyping,  \* sessionId -> userId -> typing entry
    sweepAt,          \* when typingCleanupInterval fires next
    listeners,        \* the onNewMessage subscriptions open: <<user, session>>
    rateLimit,        \* the session page's rate limiter: refs and state
    messageQueue,     \* useMessageQueue: its state, ref and pending work
    subscription,     \* SpecBus: the subscriptions made, open or cancelled
    registry          \* SpecBus: event name -> listeners, as registered

vars == <<session, sessionMember, moderationAction, now, call, result,
          emitted, writes, req, message, currentlyTyping, sweepAt, listeners,
          rateLimit, messageQueue, subscription, registry>>

\* the state of the message router
msgVars == <<message, currentlyTyping, sweepAt, listeners>>

\* the state of one client
clientVars == <<rateLimit, messageQueue>>

\* the subscriptions and the listeners of the two event emitters
busVars == <<subscription, registry>>

\* a client that has sent nothing: lastMessageTimestampsRef, cooldownActive,
\* cooldownRemaining, cooldownTimerRef (the time of its next tick, or NULL)
\* and the attempts made so far
NoRateLimit ==
    [lastMessageTimestamps |-> <<>>, cooldownActive |-> FALSE,
     cooldownRemaining |-> 0, cooldownTimer |-> NULL, attempts |-> <<>>]

\* no message in flight
NoMessage == [id |-> NULL, retries |-> 0]

\* useMessageQueue after its first render: queue, isProcessing,
\* processingRef; whether the effect is due; where processQueue stands and
\* the message it took; how many calls of sendFunction were started, the
\* calls that settled and how many messages were queued; the page's message list (each own message a "temp"
\* optimistic entry or the "real" row) and its messageStatus map
NoQueue ==
    [queue |-> <<>>, isProcessing |-> FALSE, processingRef |-> FALSE,
     effectPending |-> FALSE, pc |-> "idle", message |-> NoMessage,
     started |-> 0, sendLog |-> <<>>, queued |-> 0,
     messages |-> <<>>, messageStatus |-> <<>>]

db == <<session, sessionMember, moderationAction>>

\* ------------------------------------------------------------ rows
\* SessionMember.id is an opaque unique string (uuid): the model names a row
\* <<userId, sessionId, n>>, the n-th row created for that user and session
NoId == <<0, 0, 0>>

NoMember == [id |-> NoId, userId |-> NULL, sessionId |-> NULL,
             role |-> "PARTICIPANT", leftAt |-> NULL,
             isBanned |-> FALSE, isMuted |-> FALSE]

NoCall == [op |-> "none", userId |-> NULL, sessionId |-> NULL,
           targetUserId |-> NULL, role |-> NoRole, durationMinutes |-> NULL]

\* a request slot of SpecConc that no request has taken yet
NoReq == [call |-> NoCall, pc |-> "idle", moderator |-> NoMember,
          member |-> NoMember, result |-> "none", events |-> <<>>]

\* model SessionMember: a new row with the schema's defaults
NewMember(u, s, r) ==
    [userId |-> u, sessionId |-> s, role |-> r, leftAt |-> NULL,
     isBanned |-> FALSE, isMuted |-> FALSE]

\* a row as a query returns it: the row's fields and its id
WithId(rows, i) ==
    [id |-> i, userId |-> rows[i].userId, sessionId |-> rows[i].sessionId,
     role |-> rows[i].role, leftAt |-> rows[i].leftAt,
     isBanned |-> rows[i].isBanned, isMuted |-> rows[i].isMuted]

\* the oldest of the rows hits, all of one user and session
First(hits) == CHOOSE i \in hits : \A j \in hits : i[3] <= j[3]

\* the rows of user u in session s
RowsOf(rows, u, s) ==
    {i \in DOMAIN rows : rows[i].userId = u /\ rows[i].sessionId = s}

\* prisma.sessionMember.create: the table with the new row under a fresh id
Insert(rows, row) ==
    rows @@ (<<row.userId, row.sessionId,
               Cardinality(RowsOf(rows, row.userId, row.sessionId)) + 1>> :> row)

UniqueViolationIgnored(rows, u, s) == FALSE

\* @@unique([userId, sessionId]): would inserting (u, s) violate it?
UniqueViolation(rows, u, s) ==
    \E i \in DOMAIN rows : rows[i].userId = u /\ rows[i].sessionId = s

FindFirstIgnoringLeftAt(rows, u, s, roles) ==
    LET hits == {i \in DOMAIN rows :
                    /\ rows[i].userId = u
                    /\ rows[i].sessionId = s
                    /\ rows[i].role \in roles}
    IN IF hits = {} THEN NoMember ELSE WithId(rows, First(hits))

\* prisma.sessionMember.findFirst({where: {userId, sessionId,
\*                                         role: {in: roles}, leftAt: null}})
FindFirstActive(rows, u, s, roles) ==
    LET hits == {i \in DOMAIN rows :
                    /\ rows[i].userId = u
                    /\ rows[i].sessionId = s
                    /\ rows[i].role \in roles
                    /\ rows[i].leftAt = NULL}
    IN IF hits = {} THEN NoMember ELSE WithId(rows, First(hits))

\* session.sessionMembers of join's findUnique:
\* include: {sessionMembers: {where: {leftAt: null}}}
JoinSessionMembers(rows, s) ==
    {i \in DOMAIN rows : rows[i].sessionId = s /\ rows[i].leftAt = NULL}

JoinExistingMemberNeverFound(rows, s, u) == NoMember

\* session.sessionMembers.find(member => member.userId === userId)
JoinExistingMember(rows, s, u) ==
    LET hits == {i \in JoinSessionMembers(rows, s) : rows[i].userId = u}
    IN IF hits = {} THEN NoMember ELSE WithId(rows, First(hits))

\* ------------------------------------------------------------ events
SessionEvent(type, s, m) ==
    [type |-> type, sessionId |-> s, userId |-> m.userId, role |-> m.role]

ModerationEvent(type, s, m, action, d, moderator) ==
    [type |-> type, sessionId |-> s, userId |-> m.userId, role |-> m.role,
     action |-> action, durationMinutes |-> d, moderatorId |-> moderator.userId]

RoleChangeEventAfterUpdate(s, m, newRole, moderator) ==
    [type |-> "roleChanged", sessionId |-> s, userId |-> m.userId,
     oldRole |-> newRole, newRole |-> newRole, changedBy |-> moderator.userId]

RoleChangeEvent(s, m, newRole, moderator) ==
    [type |-> "roleChanged", sessionId |-> s, userId |-> m.userId,
     oldRole |-> m.role, newRole |-> newRole, changedBy |-> moderator.userId]

SessionEndedEvent(s) == [type |-> "sessionEnded", sessionId |-> s]

\* ------------------------------------------------------------ bookkeeping
\* the mutation threw before any write
Throws(c, code) ==
    /\ call' = c
    /\ result' = code
    /\ emitted' = <<>>
    /\ UNCHANGED <<session, sessionMember, moderationAction>>

Init ==
    /\ session = <<>>
    /\ sessionMember = <<>>
    /\ moderationAction = <<>>
    /\ now = 1
    /\ call = NoCall
    /\ result = "none"
    /\ emitted = <<>>
    /\ writes = 0
    /\ req = [k \in 1..MaxRequests |-> NoReq]
    /\ message = <<>>
    /\ currentlyTyping = <<>>
    /\ sweepAt = 3000
    /\ listeners = {}
    /\ rateLimit = NoRateLimit
    /\ messageQueue = NoQueue
    /\ subscription = <<>>
    /\ registry = <<>>

\* time passes
Tick ==
    /\ now < MaxTime
    /\ now' = now + 1
    /\ UNCHANGED <<session, sessionMember, moderationAction, call, result,
                   emitted, writes, req, msgVars, clientVars, busVars>>

\* the caller has its answer; the next request can be made
Return ==
    /\ call # NoCall
    /\ call' = NoCall
    /\ result' = "none"
    /\ emitted' = <<>>
    /\ UNCHANGED <<session, sessionMember, moderationAction, now, writes, req,
                   msgVars, clientVars, busVars>>

\* a mutation of the router, made once the previous one has returned: A is
\* what it does; a mutation that changes the database counts as one of the
\* MaxWrites this model explores
Mutation(A) ==
    /\ call = NoCall
    /\ A
    /\ writes' = IF db' = db THEN writes ELSE writes + 1
    /\ writes' <= MaxWrites
    /\ UNCHANGED <<msgVars, clientVars, busVars>>

\* ------------------------------------------------------------ create
\* sessionRouter.create: the session and its creator's MODERATOR row
Create(u) ==
    /\ Len(session) < MaxSessions
    /\ session' = Append(session, [creatorId |-> u, isActive |-> TRUE, title |-> "created"])
    /\ sessionMember' = Insert(sessionMember,
                               NewMember(u, Len(session) + 1, "MODERATOR"))
    /\ call' = [NoCall EXCEPT !.op = "create", !.userId = u,
                              !.sessionId = Len(session) + 1]
    /\ result' = "OK"
    /\ emitted' = <<>>
    /\ UNCHANGED <<moderationAction, now, req>>

\* ------------------------------------------------------------ join
\* sessionRouter.join from "Check if user is already a member" on, given
\* the existingMember its findUnique produced
JoinWrite(c, existingMember) ==
    LET u == c.userId
        s == c.sessionId
        id == existingMember.id
    IN
    IF id # NoId
    THEN IF existingMember.isBanned
         THEN Throws(c, "FORBIDDEN")
         ELSE IF existingMember.leftAt # NULL
         THEN /\ sessionMember' = [sessionMember EXCEPT ![id].leftAt = NULL]
              /\ emitted' = <<SessionEvent("userJoined", s, sessionMember[id])>>
              /\ call' = c
              /\ result' = "OK"
              /\ UNCHANGED <<session, moderationAction>>
         ELSE /\ call' = c
              /\ result' = "OK"
              /\ emitted' = <<>>
              /\ UNCHANGED <<session, sessionMember, moderationAction>>
    ELSE IF UniqueViolation(sessionMember, u, s)
         THEN Throws(c, "INTERNAL_SERVER_ERROR")
         ELSE LET newMember ==
                      NewMember(u, s, IF c.role # NoRole THEN c.role ELSE "PARTICIPANT")
              IN /\ sessionMember' = Insert(sessionMember, newMember)
                 /\ emitted' = <<SessionEvent("userJoined", s, newMember)>>
                 /\ call' = c
                 /\ result' = "OK"
                 /\ UNCHANGED <<session, moderationAction>>

Join(u, code, role) ==
    LET c == [NoCall EXCEPT !.op = "join", !.userId = u, !.sessionId = code,
                            !.role = role]
    IN /\ IF code \notin DOMAIN session
          THEN Throws(c, "NOT_FOUND")
          ELSE JoinWrite(c, JoinExistingMember(sessionMember, code, u))
       /\ UNCHANGED <<now, req>>

\* ------------------------------------------------------------ leave
\* sessionRouter.leave after its findFirst produced member
CreatorNeverLeaves(s, u) == FALSE

\* member.session.creatorId === userId
CreatorLeaves(s, u) == session[s].creatorId = u

LeaveWrite(c, member) ==
    LET u == c.userId
        s == c.sessionId
        creator == CreatorLeaves(s, u)
    IN /\ sessionMember' = [sessionMember EXCEPT ![member.id].leftAt = now]
       /\ session' = IF creator
                     THEN [session EXCEPT ![s].isActive = FALSE]
                     ELSE session
       /\ emitted' = <<SessionEvent("userLeft", s, member)>>
                     \o (IF creator THEN <<SessionEndedEvent(s)>> ELSE <<>>)
       /\ call' = c
       /\ result' = "OK"
       /\ UNCHANGED <<moderationAction>>

Leave(u, s) ==
    LET c == [NoCall EXCEPT !.op = "leave", !.userId = u, !.sessionId = s]
        member == FindFirstActive(sessionMember, u, s, UserRole)
    IN /\ IF member.id = NoId
          THEN Throws(c, "NOT_FOUND")
          ELSE LeaveWrite(c, member)
       /\ UNCHANGED <<now, req>>

\* ------------------------------------------------------------ moderation
ModeratorRoles == {"MODERATOR", "EVALUATOR"}

ModeratorTargetNeverRejected(moderator, targetMember) == FALSE

\* "Can't ban other moderators unless you're the creator": the test that
\* banUser, kickUser and muteUser make on their two snapshots
ModeratorTargetRejected(moderator, targetMember) ==
    /\ targetMember.role = "MODERATOR"
    /\ moderator.role # "MODERATOR"

ChangeRoleRejectedByRole(moderator, targetMember, sessions) ==
    /\ targetMember.role = "MODERATOR"
    /\ moderator.role # "MODERATOR"

\* "Can't change role of other moderators unless you're the creator"
ChangeRoleRejected(moderator, targetMember, sessions) ==
    /\ targetMember.role = "MODERATOR"
    /\ moderator.userId # sessions[targetMember.sessionId].creatorId

ExpiresAtNever(d, t) == NULL

\* expiresAt of a BAN record: null unless durationMinutes is truthy
ExpiresAt(d, t) == IF d # NULL THEN t + d * 60 * 1000 ELSE NULL

\* a moderation_actions row
ActionRecord(type, c, targetMember, expiresAt) ==
    [actionType |-> type, durationMinutes |-> c.durationMinutes,
     userId |-> targetMember.userId, moderatorId |-> c.userId,
     sessionId |-> c.sessionId, sessionMemberId |-> targetMember.id,
     expiresAt |-> expiresAt]

\* data of the sessionMember.update each mutation issues
BanDataNoEject(row, t) == [row EXCEPT !.isBanned = TRUE]

BanData(row, t) == [row EXCEPT !.isBanned = TRUE, !.leftAt = t]

KickData(row, t) == [row EXCEPT !.leftAt = t]

MuteData(row) == [row EXCEPT !.isMuted = TRUE]

UnmuteData(row) == [row EXCEPT !.isMuted = FALSE]

RoleData(row, r) == [row EXCEPT !.role = r]

\* the two writes issued one after the other, outside a transaction
TransactionNotAtomic(rows, acts, id, newRow, record, fail) ==
    CASE fail = 0 -> [ok |-> TRUE, rows |-> [rows EXCEPT ![id] = newRow],
                      acts |-> Append(acts, record)]
      [] fail = 1 -> [ok |-> FALSE, rows |-> rows, acts |-> acts]
      [] OTHER -> [ok |-> FALSE, rows |-> [rows EXCEPT ![id] = newRow],
                   acts |-> acts]

\* the transaction without its moderationAction.create
TransactionNoAudit(rows, acts, id, newRow, record, fail) ==
    IF fail = 0
    THEN [ok |-> TRUE, rows |-> [rows EXCEPT ![id] = newRow], acts |-> acts]
    ELSE [ok |-> FALSE, rows |-> rows, acts |-> acts]

\* prisma.$transaction([sessionMember.update, moderationAction.create]):
\* fail names the write that fails (0: none); a failure rolls both back
Transaction(rows, acts, id, newRow, record, fail) ==
    IF fail = 0
    THEN [ok |-> TRUE, rows |-> [rows EXCEPT ![id] = newRow],
          acts |-> Append(acts, record)]
    ELSE [ok |-> FALSE, rows |-> rows, acts |-> acts]

TxFailures == 0..2

\* the $transaction, the emit and the return of banUser, kickUser, muteUser
ModerationWrite(c, moderator, targetMember, newRow, type, expiresAt, event, fail) ==
    LET tx == Transaction(sessionMember, moderationAction, targetMember.id,
                          newRow, ActionRecord(type, c, targetMember, expiresAt),
                          fail)
    IN /\ sessionMember' = tx.rows
       /\ moderationAction' = tx.acts
       /\ call' = c
       /\ result' = IF tx.ok THEN "OK" ELSE "INTERNAL_SERVER_ERROR"
       /\ emitted' = IF tx.ok
                     THEN <<ModerationEvent(event, c.sessionId, targetMember, type,
                                            c.durationMinutes, moderator)>>
                     ELSE <<>>
       /\ UNCHANGED session

\* the checks with the target's lookup tested before the caller's
ModerationCheckTargetFirst(c, moderator, targetMember, rejected, Write) ==
    IF targetMember.id = NoId THEN Throws(c, "NOT_FOUND")
    ELSE IF moderator.id = NoId THEN Throws(c, "FORBIDDEN")
    ELSE IF rejected THEN Throws(c, "FORBIDDEN")
    ELSE Write

\* the checks that follow the two findFirst calls of a moderation mutation
ModerationCheck(c, moderator, targetMember, rejected, Write) ==
    IF moderator.id = NoId THEN Throws(c, "FORBIDDEN")
    ELSE IF targetMember.id = NoId THEN Throws(c, "NOT_FOUND")
    ELSE IF rejected THEN Throws(c, "FORBIDDEN")
    ELSE Write

ModCall(op, u, s, t, d, r) ==
    [op |-> op, userId |-> u, sessionId |-> s, targetUserId |-> t,
     role |-> r, durationMinutes |-> d]

BanWrite(c, moderator, targetMember, fail) ==
    ModerationWrite(c, moderator, targetMember,
                    BanData(sessionMember[targetMember.id], now), "BAN",
                    ExpiresAt(c.durationMinutes, now), "userBanned", fail)

BanUser(u, s, t, d, fail) ==
    LET c == ModCall("banUser", u, s, t, d, NoRole)
        moderator == FindFirstActive(sessionMember, u, s, ModeratorRoles)
        targetMember == FindFirstActive(sessionMember, t, s, UserRole)
    IN /\ ModerationCheck(c, moderator, targetMember,
                          ModeratorTargetRejected(moderator, targetMember),
                          BanWrite(c, moderator, targetMember, fail))
       /\ UNCHANGED <<now, req>>

KickWrite(c, moderator, targetMember, fail) ==
    ModerationWrite(c, moderator, targetMember,
                    KickData(sessionMember[targetMember.id], now), "KICK",
                    NULL, "userKicked", fail)

KickUser(u, s, t, fail) ==
    LET c == ModCall("kickUser", u, s, t, NULL, NoRole)
        moderator == FindFirstActive(sessionMember, u, s, ModeratorRoles)
        targetMember == FindFirstActive(sessionMember, t, s, UserRole)
    IN /\ ModerationCheck(c, moderator, targetMember,
                          ModeratorTargetRejected(moderator, targetMember),
                          KickWrite(c, moderator, targetMember, fail))
       /\ UNCHANGED <<now, req>>

MuteWrite(c, moderator, targetMember, fail) ==
    ModerationWrite(c, moderator, targetMember,
                    MuteData(sessionMember[targetMember.id]), "MUTE",
                    now + c.durationMinutes * 60 * 1000, "userMuted", fail)

MuteUser(u, s, t, d, fail) ==
    LET c == ModCall("muteUser", u, s, t, d, NoRole)
        moderator == FindFirstActive(sessionMember, u, s, ModeratorRoles)
        targetMember == FindFirstActive(sessionMember, t, s, UserRole)
    IN /\ ModerationCheck(c, moderator, targetMember,
                          ModeratorTargetRejected(moderator, targetMember),
                          MuteWrite(c, moderator, targetMember, fail))
       /\ UNCHANGED <<now, req>>

UnmuteWrite(c, targetMember) ==
    /\ sessionMember' = [sessionMember EXCEPT
                            ![targetMember.id] = UnmuteData(@)]
    /\ call' = c
    /\ result' = "OK"
    /\ emitted' = <<>>
    /\ UNCHANGED <<session, moderationAction>>

UnmuteUser(u, s, t) ==
    LET c == ModCall("unmuteUser", u, s, t, NULL, NoRole)
        moderator == FindFirstActive(sessionMember, u, s, ModeratorRoles)
        targetMember == FindFirstActive(sessionMember, t, s, UserRole)
    IN /\ ModerationCheck(c, moderator, targetMember, FALSE,
                          UnmuteWrite(c, targetMember))
       /\ UNCHANGED <<now, req>>

ChangeRoleWrite(c, moderator, targetMember) ==
    /\ sessionMember' = [sessionMember EXCEPT
                            ![targetMember.id] = RoleData(@, c.role)]
    /\ call' = c
    /\ result' = "OK"
    /\ emitted' = <<RoleChangeEvent(c.sessionId, targetMember, c.role, moderator)>>
    /\ UNCHANGED <<session, moderationAction>>

ChangeRole(u, s, t, r) ==
    LET c == ModCall("changeRole", u, s, t, NULL, r)
        moderator == FindFirstActive(sessionMember, u, s, {"MODERATOR"})
        targetMember == FindFirstActive(sessionMember, t, s, UserRole)
    IN /\ ModerationCheck(c, moderator, targetMember,
                          targetMember.id # NoId /\ moderator.id # NoId
                             /\ ChangeRoleRejected(moderator, targetMember, session),
                          ChangeRoleWrite(c, moderator, targetMember))
       /\ UNCHANGED <<now, req>>

\* ------------------------------------------------------------ endSession
\* sessionRouter.endSession: the caller must be an Active MODERATOR
EndSession(u, s) ==
    LET c == [NoCall EXCEPT !.op = "endSession", !.userId = u, !.sessionId = s]
        moderator == FindFirstActive(sessionMember, u, s, {"MODERATOR"})
    IN /\ IF moderator.id = NoId
          THEN Throws(c, "FORBIDDEN")
          ELSE /\ session' = [session EXCEPT ![s].isActive = FALSE]
               /\ emitted' = <<SessionEndedEvent(s)>>
               /\ call' = c
               /\ result' = "OK"
               /\ UNCHANGED <<sessionMember, moderationAction>>
       /\ UNCHANGED <<now, req>>

\* ------------------------------------------------------------ updateSession
\* the titles a caller may send; NoTitle is an input without title, which
\* Prisma leaves as it is.  description and communicationModes are written
\* the same way and are not modelled.
NoTitle == "undefined"

Titles == {"renamed", NoTitle}

UpdateDataReactivates(row, title) ==
    [row EXCEPT !.title = IF title = NoTitle THEN @ ELSE title,
                !.isActive = TRUE]

\* data: { title, description, communicationModes }
UpdateData(row, title) ==
    [row EXCEPT !.title = IF title = NoTitle THEN @ ELSE title]

\* sessionRouter.updateSession: the caller must be an Active MODERATOR
UpdateSession(u, s, title) ==
    LET c == [NoCall EXCEPT !.op = "updateSession", !.userId = u,
                            !.sessionId = s]
        moderator == FindFirstActive(sessionMember, u, s, {"MODERATOR"})
    IN /\ IF moderator.id = NoId
          THEN Throws(c, "FORBIDDEN")
          ELSE /\ session' = [session EXCEPT ![s] = UpdateData(@, title)]
               /\ emitted' = <<[type |-> "sessionUpdated", sessionId |-> s]>>
               /\ call' = c
               /\ result' = "OK"
               /\ UNCHANGED <<sessionMember, moderationAction>>
       /\ UNCHANGED <<now, req>>

Next ==
    \/ call = NoCall /\ Tick
    \/ Return
    \/ \E u \in Users : Mutation(Create(u))
    \/ \E u \in Users, s \in SessionIds, r \in RoleInputs : Mutation(Join(u, s, r))
    \/ \E u \in Users, s \in SessionIds : Mutation(Leave(u, s))
    \/ \E u, t \in Users, s \in SessionIds, d \in Durations, f \in TxFailures :
          Mutation(BanUser(u, s, t, d, f))
    \/ \E u, t \in Users, s \in SessionIds, f \in TxFailures :
          Mutation(KickUser(u, s, t, f))
    \/ \E u, t \in Users, s \in SessionIds, d \in MuteDurations, f \in TxFailures :
          Mutation(MuteUser(u, s, t, d, f))
    \/ \E u, t \in Users, s \in SessionIds : Mutation(UnmuteUser(u, s, t))
    \/ \E u, t \in Users, s \in SessionIds, r \in UserRole :
          Mutation(ChangeRole(u, s, t, r))
    \/ \E u \in Users, s \in SessionIds : Mutation(EndSession(u, s))
    \/ \E u \in Users, s \in SessionIds, title \in Titles :
          Mutation(UpdateSession(u, s, title))

Spec == Init /\ [][Next]_vars

\* ============================================================ SpecConc
\* The mutations split at their awaits.  A run starts from a database the
\* router can have produced (no session yet, or session 1 with its creator
\* and the other users absent, Active, gone or banned) and issues at most
\* MaxRequests requests whose steps interleave.

Statuses == {"absent", "PARTICIPANT", "EVALUATOR", "MODERATOR", "left", "banned"}

\* the same, and a PARTICIPANT a moderator has muted
MsgStatuses == Statuses \cup {"muted"}

StatusRow(u, st) ==
    [userId |-> u, sessionId |-> 1,
     role |-> IF st \in UserRole THEN st ELSE "PARTICIPANT",
     leftAt |-> IF st \in {"left", "banned"} THEN 1 ELSE NULL,
     isBanned |-> st = "banned", isMuted |-> st = "muted"]

\* the users other than the creator that have a row
Joined(st) == {u \in Users \ {1} : st[u] # "absent"}

\* the rows of session 1: its creator's and those of the users who joined
StatusRows(st) ==
    [id \in {<<u, 1, 1>> : u \in {1} \cup Joined(st)} |->
        IF id[1] = 1 THEN NewMember(1, 1, "MODERATOR")
        ELSE StatusRow(id[1], st[id[1]])]

RECURSIVE StatusActions(_, _)
\* the BAN and MUTE records of the banned and muted users u..NumUsers:
\* user 1 banned or muted them
StatusActions(st, u) ==
    IF u > NumUsers THEN <<>>
    ELSE (IF st[u] = "banned"
          THEN <<[actionType |-> "BAN", durationMinutes |-> NULL,
                  userId |-> u, moderatorId |-> 1,
                  sessionId |-> 1, sessionMemberId |-> <<u, 1, 1>>,
                  expiresAt |-> NULL]>>
          ELSE IF st[u] = "muted"
          THEN <<[actionType |-> "MUTE", durationMinutes |-> 1,
                  userId |-> u, moderatorId |-> 1,
                  sessionId |-> 1, sessionMemberId |-> <<u, 1, 1>>,
                  expiresAt |-> 1 + 60 * 1000]>>
          ELSE <<>>)
         \o StatusActions(st, u + 1)

InitConc ==
    /\ now = 1
    /\ call = NoCall
    /\ result = "none"
    /\ emitted = <<>>
    /\ writes = 0
    /\ req = [k \in 1..MaxRequests |-> NoReq]
    /\ message = <<>>
    /\ currentlyTyping = <<>>
    /\ sweepAt = 3000
    /\ listeners = {}
    /\ rateLimit = NoRateLimit
    /\ messageQueue = NoQueue
    /\ subscription = <<>>
    /\ registry = <<>>
    /\ \/ /\ session = <<>>
          /\ sessionMember = <<>>
          /\ moderationAction = <<>>
       \/ \E st \in [Users \ {1} -> Statuses] :
             /\ session = <<[creatorId |-> 1, isActive |-> TRUE, title |-> "created"]>>
             /\ sessionMember = StatusRows(st)
             /\ moderationAction = StatusActions(st, 2)

\* the requests SpecConc issues
ConcCalls ==
    {[NoCall EXCEPT !.op = "create", !.userId = u] : u \in Users}
    \cup {[NoCall EXCEPT !.op = "join", !.userId = u, !.sessionId = s, !.role = r] :
             u \in Users, s \in SessionIds, r \in {NoRole, "MODERATOR"}}
    \cup {[NoCall EXCEPT !.op = "leave", !.userId = u, !.sessionId = s] :
             u \in Users, s \in SessionIds}
    \cup {ModCall(op, u, s, t, NULL, NoRole) :
             op \in {"banUser", "kickUser"}, u \in Users, s \in SessionIds,
             t \in Users}

\* the first await of each mutation
FirstStep(op) ==
    CASE op = "create" -> "createSession"
      [] op = "join" -> "findSession"
      [] op = "leave" -> "findMember"
      [] OTHER -> "findModerator"

\* request k has returned or thrown: its slot keeps what the caller saw
Done(k) ==
    req' = [req EXCEPT ![k].pc = "done", ![k].result = result',
                       ![k].events = @ \o emitted']

\* a request arrives; slots are taken in order
Start(k, c) ==
    /\ req[k].pc = "idle"
    /\ \A j \in 1..(k - 1) : req[j].pc # "idle"
    /\ req' = [req EXCEPT ![k].call = c, ![k].pc = FirstStep(c.op)]
    /\ UNCHANGED <<session, sessionMember, moderationAction, now, call, result,
                   emitted, writes, msgVars, clientVars, busVars>>

\* create: await prisma.session.create
ConcCreateSession(k) ==
    /\ req[k].pc = "createSession"
    /\ Len(session) < MaxSessions
    /\ session' = Append(session, [creatorId |-> req[k].call.userId,
                                   isActive |-> TRUE, title |-> "created"])
    /\ req' = [req EXCEPT ![k].call.sessionId = Len(session) + 1,
                          ![k].pc = "createMember"]
    /\ UNCHANGED <<sessionMember, moderationAction, now, call, result, emitted,
                   writes, msgVars, clientVars, busVars>>

\* create: await prisma.sessionMember.create, return
ConcCreateMember(k) ==
    LET c == req[k].call
    IN /\ req[k].pc = "createMember"
       /\ IF UniqueViolation(sessionMember, c.userId, c.sessionId)
          THEN Throws(c, "INTERNAL_SERVER_ERROR")
          ELSE /\ sessionMember' = Insert(sessionMember,
                                          NewMember(c.userId, c.sessionId, "MODERATOR"))
               /\ call' = c
               /\ result' = "OK"
               /\ emitted' = <<>>
               /\ UNCHANGED <<session, moderationAction>>
       /\ Done(k)
       /\ UNCHANGED <<now, writes, msgVars, clientVars, busVars>>

\* join: await prisma.session.findUnique
ConcJoinFind(k) ==
    LET c == req[k].call
    IN /\ req[k].pc = "findSession"
       /\ IF c.sessionId \notin DOMAIN session
          THEN Throws(c, "NOT_FOUND") /\ Done(k)
          ELSE /\ req' = [req EXCEPT
                            ![k].member = JoinExistingMember(sessionMember,
                                                             c.sessionId, c.userId),
                            ![k].pc = "joinWrite"]
               /\ UNCHANGED <<session, sessionMember, moderationAction, call,
                              result, emitted>>
       /\ UNCHANGED <<now, writes, msgVars, clientVars, busVars>>

\* join: the checks, await update or create, emit, return
ConcJoinWrite(k) ==
    /\ req[k].pc = "joinWrite"
    /\ JoinWrite(req[k].call, req[k].member)
    /\ Done(k)
    /\ UNCHANGED <<now, writes, msgVars, clientVars, busVars>>

\* leave: await prisma.sessionMember.findFirst
ConcLeaveFind(k) ==
    LET c == req[k].call
        member == FindFirstActive(sessionMember, c.userId, c.sessionId, UserRole)
    IN /\ req[k].pc = "findMember"
       /\ IF member.id = NoId
          THEN Throws(c, "NOT_FOUND") /\ Done(k)
          ELSE /\ req' = [req EXCEPT ![k].member = member, ![k].pc = "leaveUpdate"]
               /\ UNCHANGED <<session, sessionMember, moderationAction, call,
                              result, emitted>>
       /\ UNCHANGED <<now, writes, msgVars, clientVars, busVars>>

\* leave: await prisma.sessionMember.update, emit userLeft; return unless
\* the caller is the creator
ConcLeaveUpdate(k) ==
    LET c == req[k].call
        member == req[k].member
    IN /\ req[k].pc = "leaveUpdate"
       /\ sessionMember' = [sessionMember EXCEPT ![member.id].leftAt = now]
       /\ emitted' = <<SessionEvent("userLeft", c.sessionId, member)>>
       /\ IF session[c.sessionId].creatorId = c.userId
          THEN /\ req' = [req EXCEPT ![k].pc = "leaveEnd", ![k].events = emitted']
               /\ UNCHANGED <<call, result>>
          ELSE /\ call' = c
               /\ result' = "OK"
               /\ Done(k)
       /\ UNCHANGED <<session, moderationAction, now, writes, msgVars, clientVars, busVars>>

\* leave by the creator: await prisma.session.update, emit sessionEnded
ConcLeaveEnd(k) ==
    LET c == req[k].call
    IN /\ req[k].pc = "leaveEnd"
       /\ session' = [session EXCEPT ![c.sessionId].isActive = FALSE]
       /\ emitted' = <<SessionEndedEvent(c.sessionId)>>
       /\ call' = c
       /\ result' = "OK"
       /\ Done(k)
       /\ UNCHANGED <<sessionMember, moderationAction, now, writes, msgVars, clientVars, busVars>>

\* the roles the moderator lookup of a mutation accepts
AllowedRoles(op) == IF op = "changeRole" THEN {"MODERATOR"} ELSE ModeratorRoles

\* moderation: await findFirst of the caller's membership
ConcFindModerator(k) ==
    LET c == req[k].call
        moderator == FindFirstActive(sessionMember, c.userId, c.sessionId,
                                     AllowedRoles(c.op))
    IN /\ req[k].pc = "findModerator"
       /\ IF moderator.id = NoId
          THEN Throws(c, "FORBIDDEN") /\ Done(k)
          ELSE /\ req' = [req EXCEPT ![k].moderator = moderator,
                                     ![k].pc = "findTarget"]
               /\ UNCHANGED <<session, sessionMember, moderationAction, call,
                              result, emitted>>
       /\ UNCHANGED <<now, writes, msgVars, clientVars, busVars>>

\* the creator / moderator test each mutation makes after its lookups
Rejected(op, moderator, targetMember, sessions) ==
    CASE op = "unmuteUser" -> FALSE
      [] op = "changeRole" -> ChangeRoleRejected(moderator, targetMember, sessions)
      [] OTHER -> ModeratorTargetRejected(moderator, targetMember)

\* moderation: await findFirst of the target's membership, then the test
ConcFindTarget(k) ==
    LET c == req[k].call
        targetMember == FindFirstActive(sessionMember, c.targetUserId,
                                        c.sessionId, UserRole)
    IN /\ req[k].pc = "findTarget"
       /\ IF targetMember.id = NoId
          THEN Throws(c, "NOT_FOUND") /\ Done(k)
          ELSE IF Rejected(c.op, req[k].moderator, targetMember, session)
          THEN Throws(c, "FORBIDDEN") /\ Done(k)
          ELSE /\ req' = [req EXCEPT ![k].member = targetMember,
                                     ![k].pc = "write"]
               /\ UNCHANGED <<session, sessionMember, moderationAction, call,
                              result, emitted>>
       /\ UNCHANGED <<now, writes, msgVars, clientVars, busVars>>

\* moderation: await the $transaction or update, emit, return
ConcModerationWrite(k) ==
    LET c == req[k].call
        moderator == req[k].moderator
        targetMember == req[k].member
    IN /\ req[k].pc = "write"
       /\ CASE c.op = "banUser" -> BanWrite(c, moderator, targetMember, 0)
            [] c.op = "kickUser" -> KickWrite(c, moderator, targetMember, 0)
            [] c.op = "muteUser" -> MuteWrite(c, moderator, targetMember, 0)
            [] c.op = "unmuteUser" -> UnmuteWrite(c, targetMember)
            [] OTHER -> ChangeRoleWrite(c, moderator, targetMember)
       /\ Done(k)
       /\ UNCHANGED <<now, writes, msgVars, clientVars, busVars>>

Slots == 1..MaxRequests

NextConc ==
    \/ Tick
    \/ \E k \in Slots, c \in ConcCalls : Start(k, c)
    \/ \E k \in Slots : ConcCreateSession(k)
    \/ \E k \in Slots : ConcCreateMember(k)
    \/ \E k \in Slots : ConcJoinFind(k)
    \/ \E k \in Slots : ConcJoinWrite(k)
    \/ \E k \in Slots : ConcLeaveFind(k)
    \/ \E k \in Slots : ConcLeaveUpdate(k)
    \/ \E k \in Slots : ConcLeaveEnd(k)
    \/ \E k \in Slots : ConcFindModerator(k)
    \/ \E k \in Slots : ConcFindTarget(k)
    \/ \E k \in Slots : ConcModerationWrite(k)

SpecConc == InitConc /\ [][NextConc]_vars

\* C1: in every state reached by interleaving the steps of create, join,
\* leave, kick and ban requests, two concurrent joins of one user included,
\* no two membership rows have the same user and session.
C1_OneRowPerUserSession ==
    \A i, j \in DOMAIN sessionMember :
        (/\ sessionMember[i].userId = sessionMember[j].userId
         /\ sessionMember[i].sessionId = sessionMember[j].sessionId) => i = j

\* two joins of one user to one session overlapped: one created the row and
\* emitted, the other's create was refused by the unique constraint
C1_Witness ==
    \E j, k \in Slots :
        /\ j # k
        /\ req[j].pc = "done" /\ req[k].pc = "done"
        /\ req[j].call.op = "join" /\ req[k].call.op = "join"
        /\ req[j].call.userId = req[k].call.userId
        /\ req[j].call.sessionId = req[k].call.sessionId
        /\ req[j].result = "OK" /\ req[j].events # <<>>
        /\ req[k].result = "INTERNAL_SERVER_ERROR"

\* ============================================================ properties
IsActive(row) == row.leftAt = NULL

ModerationOps == {"banUser", "kickUser", "muteUser", "unmuteUser", "changeRole"}

\* the last call was made by / aimed at a user who had such a row before it
CallerHad(P(_)) ==
    \E i \in RowsOf(sessionMember, call'.userId, call'.sessionId) :
        P(sessionMember[i])

TargetHad(P(_)) ==
    \E i \in RowsOf(sessionMember, call'.targetUserId, call'.sessionId) :
        P(sessionMember[i])

IsBannedRow(row) == row.isBanned

IsLeftRow(row) == row.leftAt # NULL /\ ~row.isBanned

IsActiveRow(row) == IsActive(row)

IsActiveModerator(row) == IsActive(row) /\ row.role = "MODERATOR"

IsActiveEvaluator(row) == IsActive(row) /\ row.role = "EVALUATOR"

JoinEvents(evs, s) ==
    {k \in DOMAIN evs : evs[k].type = "userJoined" /\ evs[k].sessionId = s}

\* C2: once a membership row has isBanned = true, every later state keeps
\* it banned with leftAt set: no mutation makes it Active again.
C2_BannedNeverActive ==
    [][\A i \in DOMAIN sessionMember :
          sessionMember[i].isBanned =>
             /\ i \in DOMAIN sessionMember'
             /\ sessionMember'[i].userId = sessionMember[i].userId
             /\ sessionMember'[i].sessionId = sessionMember[i].sessionId
             /\ sessionMember'[i].isBanned
             /\ sessionMember'[i].leftAt # NULL]_vars

\* a mutation aimed at a banned member has run and found no Active target
C2_Witness ==
    /\ call.op \in ModerationOps
    /\ result = "NOT_FOUND"
    /\ \E i \in RowsOf(sessionMember, call.targetUserId, call.sessionId) :
          sessionMember[i].isBanned /\ sessionMember[i].leftAt # NULL

\* C3: a join by a user whose membership in the session is banned fails
\* with FORBIDDEN, changes no membership row and emits no event.
C3_BannedJoinForbidden ==
    [][(call'.op = "join" /\ CallerHad(IsBannedRow)) =>
          /\ result' = "FORBIDDEN"
          /\ sessionMember' = sessionMember
          /\ emitted' = <<>>]_vars

\* C4: a join by a user whose membership has leftAt set and is not banned
\* succeeds, clears leftAt on the existing row, adds no row and emits
\* exactly one join event for the session.
C4_RejoinAfterLeave ==
    [][\A i \in DOMAIN sessionMember :
          (/\ call'.op = "join"
           /\ i \in RowsOf(sessionMember, call'.userId, call'.sessionId)
           /\ IsLeftRow(sessionMember[i])) =>
             /\ result' = "OK"
             /\ DOMAIN sessionMember' = DOMAIN sessionMember
             /\ sessionMember'[i].leftAt = NULL
             /\ Cardinality(JoinEvents(emitted', call'.sessionId)) = 1]_vars

\* C5: a join by a user with an Active membership succeeds, changes no
\* membership row and emits nothing; and whenever a join emits a join event
\* the caller had no Active membership before it and has one after it.
C5_ActiveJoinNoOp ==
    [][call'.op = "join" =>
          /\ CallerHad(IsActiveRow) =>
                /\ result' = "OK"
                /\ sessionMember' = sessionMember
                /\ emitted' = <<>>
          /\ JoinEvents(emitted', call'.sessionId) # {} =>
                /\ ~CallerHad(IsActiveRow)
                /\ \E i \in RowsOf(sessionMember', call'.userId, call'.sessionId) :
                      IsActive(sessionMember'[i])]_vars

\* an Active member has joined again and nothing was emitted
C5_Witness ==
    /\ call.op = "join"
    /\ result = "OK"
    /\ emitted = <<>>
    /\ \E i \in RowsOf(sessionMember, call.userId, call.sessionId) :
          IsActive(sessionMember[i])

\* C6: a ban, kick, mute or unmute whose target holds role MODERATOR is
\* accepted only when the acting user is the session's creator, and an
\* acting MODERATOR who is not the creator gets FORBIDDEN.
C6_ModeratorTargetCreatorOnly ==
    [][(/\ call'.op \in {"banUser", "kickUser", "muteUser", "unmuteUser"}
        /\ TargetHad(IsActiveModerator)) =>
          /\ result' = "OK" =>
                call'.userId = session[call'.sessionId].creatorId
          /\ (/\ CallerHad(IsActiveModerator)
              /\ call'.userId # session[call'.sessionId].creatorId) =>
                result' = "FORBIDDEN"]_vars

\* C7: a changeRole whose target holds role MODERATOR is accepted only when
\* the acting user is the session's creator; any other caller gets
\* FORBIDDEN and no membership row changes.
C7_ChangeRoleCreatorOnly ==
    [][(call'.op = "changeRole" /\ TargetHad(IsActiveModerator)) =>
          /\ result' = "OK" =>
                call'.userId = session[call'.sessionId].creatorId
          /\ call'.userId # session[call'.sessionId].creatorId =>
                /\ result' = "FORBIDDEN"
                /\ sessionMember' = sessionMember]_vars

\* a MODERATOR who is not the creator was refused a role change of a MODERATOR
C7_Witness ==
    /\ call.op = "changeRole"
    /\ result = "FORBIDDEN"
    /\ \E i \in RowsOf(sessionMember, call.userId, call.sessionId) :
          IsActiveModerator(sessionMember[i])
    /\ \E i \in RowsOf(sessionMember, call.targetUserId, call.sessionId) :
          IsActiveModerator(sessionMember[i])
    /\ call.userId # session[call.sessionId].creatorId

\* C8: a ban by an Active EVALUATOR of a target whose role is MODERATOR
\* fails with FORBIDDEN, creates no ModerationAction, leaves the membership
\* rows unchanged and emits no event.
C8_EvaluatorCannotBanModerator ==
    [][(/\ call'.op = "banUser"
        /\ CallerHad(IsActiveEvaluator)
        /\ TargetHad(IsActiveModerator)) =>
          /\ result' = "FORBIDDEN"
          /\ moderationAction' = moderationAction
          /\ sessionMember' = sessionMember
          /\ emitted' = <<>>]_vars

\* an Active EVALUATOR has tried to ban an Active MODERATOR
C8_Witness ==
    /\ call.op = "banUser"
    /\ result = "FORBIDDEN"
    /\ \E i \in RowsOf(sessionMember, call.userId, call.sessionId) :
          IsActiveEvaluator(sessionMember[i])
    /\ \E i \in RowsOf(sessionMember, call.targetUserId, call.sessionId) :
          IsActiveModerator(sessionMember[i])

\* what a committed BAN, KICK or MUTE leaves in its target's row
Mutated(type, old, new, t) ==
    CASE type = "BAN" -> new = [old EXCEPT !.isBanned = TRUE, !.leftAt = t]
      [] type = "KICK" -> new = [old EXCEPT !.leftAt = t]
      [] type = "MUTE" -> new = [old EXCEPT !.isMuted = TRUE]
      [] OTHER -> FALSE

\* C9: a ban, kick or mute applies its membership update and its
\* ModerationAction record together or not at all, also when one of the two
\* writes fails: the row is updated exactly when the record is appended.
C9_MutationIffAudit ==
    [][call'.op \in {"banUser", "kickUser", "muteUser"} =>
          \/ /\ moderationAction' = moderationAction
             /\ sessionMember' = sessionMember
             /\ result' # "OK"
          \/ /\ Len(moderationAction') = Len(moderationAction) + 1
             /\ SubSeq(moderationAction', 1, Len(moderationAction)) = moderationAction
             /\ result' = "OK"
             /\ LET a == moderationAction'[Len(moderationAction')]
                IN /\ a.sessionMemberId \in DOMAIN sessionMember
                   /\ DOMAIN sessionMember' = DOMAIN sessionMember
                   /\ \A i \in DOMAIN sessionMember :
                         IF i = a.sessionMemberId
                         THEN Mutated(a.actionType, sessionMember[i],
                                      sessionMember'[i], now)
                         ELSE sessionMember'[i] = sessionMember[i]]_vars

\* one of the two writes of a transaction failed
C9_Witness ==
    /\ call.op \in {"banUser", "kickUser", "muteUser"}
    /\ result = "INTERNAL_SERVER_ERROR"

AuditType(op) ==
    CASE op = "banUser" -> "BAN"
      [] op = "kickUser" -> "KICK"
      [] op = "muteUser" -> "MUTE"
      [] OTHER -> "none"

IsAuthorized(row) == IsActive(row) /\ row.role \in AllowedRoles(call'.op)

\* C11: a ban, kick, mute, unmute or changeRole by a caller without an Active
\* membership of a permitted role returns FORBIDDEN; one by a permitted
\* caller whose target has no Active membership returns NOT_FOUND; and every
\* such call that returns FORBIDDEN or NOT_FOUND changes no membership row
\* and no session, creates no ModerationAction and emits no event.
C11_RejectedNoSideEffects ==
    [][call'.op \in ModerationOps =>
          /\ ~CallerHad(IsAuthorized) => result' = "FORBIDDEN"
          /\ (CallerHad(IsAuthorized) /\ ~TargetHad(IsActiveRow)) =>
                result' = "NOT_FOUND"
          /\ result' \in {"FORBIDDEN", "NOT_FOUND"} =>
                /\ sessionMember' = sessionMember
                /\ moderationAction' = moderationAction
                /\ session' = session
                /\ emitted' = <<>>]_vars

\* a caller who is no member aimed a mutation at a user who is none either
\* and was refused as unauthorized
C11_Witness ==
    /\ call.op \in ModerationOps
    /\ result = "FORBIDDEN"
    /\ session # <<>>
    /\ RowsOf(sessionMember, call.userId, call.sessionId) = {}
    /\ RowsOf(sessionMember, call.targetUserId, call.sessionId) = {}

TypingTTL == 3000

\* setInterval(..., 3000)
SweepInterval == 3000

\* an optional string input (content, mediaType) left out
NoText == "undefined"

\* input.content
Contents == {NoText, "hi"}

\* an optional mediaFile left out
NoFile == "none"

\* input.mediaFile, by its name
MediaFiles == {NoFile, "a.png"}

\* mediaUrl: null
NoUrl == <<>>

\* a call of the message router
MsgCall(op, u, s) ==
    [op |-> op, userId |-> u, sessionId |-> s, content |-> NoText,
     mediaFile |-> NoFile, mediaType |-> NoText, isSystemMessage |-> FALSE,
     typing |-> FALSE]

\* !content
Falsy(content) == content \in {NoText, ""}

\* currentlyTyping[sessionId] || {}
Entries(ct, s) == IF s \in DOMAIN ct THEN ct[s] ELSE <<>>

\* delete f[k]
Remove(f, k) == [x \in DOMAIN f \ {k} |-> f[x]]

\* f[k] = v
Put(f, k, v) == [x \in DOMAIN f \cup {k} |-> IF x = k THEN v ELSE f[x]]

\* Object.values(currentlyTyping[input.sessionId] || {}).map(user => user.id)
TypingUsers(ct, s) == {Entries(ct, s)[u].id : u \in DOMAIN Entries(ct, s)}

\* messageEventEmitter.emit("newMessage", row); typing is what
\* currentlyTyping held for the row's session when the event was emitted
NewMessageEvent(row, id, ct) ==
    [type |-> "newMessage", sessionId |-> row.sessionId, id |-> id,
     message |-> row, typing |-> TypingUsers(ct, row.sessionId)]

\* messageEventEmitter.emit("typingUpdate")
TypingUpdateEvent == [type |-> "typingUpdate"]

\* what a whoIsTyping subscription of session s emits
TypingSnapshot(ct, s) ==
    [type |-> "typingUsers", sessionId |-> s, users |-> TypingUsers(ct, s)]

\* the MUTE records of membership i whose expiresAt has passed
ExpiredMutes(i) ==
    {a \in DOMAIN moderationAction :
        /\ moderationAction[a].sessionMemberId = i
        /\ moderationAction[a].actionType = "MUTE"
        /\ moderationAction[a].expiresAt < now}

SendMembershipUntilExpiry(rows, u, s) ==
    LET hits == {i \in RowsOf(rows, u, s) :
                    /\ rows[i].leftAt = NULL
                    /\ ~rows[i].isBanned
                    /\ ~rows[i].isMuted \/ ExpiredMutes(i) # {}}
    IN IF hits = {} THEN NoMember ELSE WithId(rows, First(hits))

\* send's findFirst: {userId, sessionId, leftAt: null, isBanned: false,
\*                    isMuted: false}
SendMembership(rows, u, s) ==
    LET hits == {i \in RowsOf(rows, u, s) :
                    /\ rows[i].leftAt = NULL
                    /\ ~rows[i].isBanned
                    /\ ~rows[i].isMuted}
    IN IF hits = {} THEN NoMember ELSE WithId(rows, First(hits))

\* getSessionMessages' findFirst: {userId, sessionId, leftAt: null,
\*                                  isBanned: false}
ReadMembership(rows, u, s) ==
    LET hits == {i \in RowsOf(rows, u, s) :
                    rows[i].leftAt = NULL /\ ~rows[i].isBanned}
    IN IF hits = {} THEN NoMember ELSE WithId(rows, First(hits))

MessageRow(content, mediaUrl, mediaType, u, s) ==
    [content |-> content, mediaUrl |-> mediaUrl, mediaType |-> mediaType,
     senderId |-> u, sessionId |-> s]

\* `https://storage.example.com/${Date.now()}-${mediaFile.name}` or null
MediaUrl(mediaFile, t) == IF mediaFile # NoFile THEN <<t, mediaFile>> ELSE NoUrl

InitMsg ==
    /\ now = 0
    /\ call = NoCall
    /\ result = "none"
    /\ emitted = <<>>
    /\ writes = 0
    /\ req = [k \in 1..MaxRequests |-> NoReq]
    /\ message = <<>>
    /\ currentlyTyping = <<>>
    /\ sweepAt = SweepInterval
    /\ listeners = {}
    /\ rateLimit = NoRateLimit
    /\ messageQueue = NoQueue
    /\ subscription = <<>>
    /\ registry = <<>>
    /\ \/ /\ session = <<>>
          /\ sessionMember = <<>>
          /\ moderationAction = <<>>
       \/ \E st \in [Users \ {1} -> MsgStatuses] :
             /\ session = <<[creatorId |-> 1, isActive |-> TRUE, title |-> "created"]>>
             /\ sessionMember = StatusRows(st)
             /\ moderationAction = StatusActions(st, 2)

\* what no handler of the message router writes
NotWritten ==
    UNCHANGED <<session, sessionMember, moderationAction, now, writes, req,
                sweepAt, clientVars>>

\* the same for a handler that emits nothing
Untouched == NotWritten /\ UNCHANGED busVars

\* a handler A that emits while the emitters have no listener
Unheard(A) == A /\ UNCHANGED busVars

\* a second passes; the sweep timer fires on time
Elapse ==
    /\ call = NoCall
    /\ now < sweepAt
    /\ now + 1000 <= MaxSeconds * 1000
    /\ now' = now + 1000
    /\ UNCHANGED <<session, sessionMember, moderationAction, call, result,
                   emitted, writes, req, msgVars, clientVars, busVars>>

ClearTypingSkipped(ct, u, s) == ct

\* "Remove typing indicator when sending a message":
\* if (currentlyTyping[sessionId]?.[userId]) delete currentlyTyping[sessionId][userId]
ClearTyping(ct, u, s) ==
    IF u \in DOMAIN Entries(ct, s) THEN Put(ct, s, Remove(ct[s], u)) ELSE ct

\* messageRouter.send: the system message first, then the membership check,
\* the validation, the message, the typing entry and the event
Send(c) ==
    LET u == c.userId
        s == c.sessionId
        systemMessage == MessageRow(c.content, NoUrl, "system", u, s)
        withSystem == IF c.isSystemMessage
                      THEN Append(message, systemMessage) ELSE message
        systemEvents ==
            IF c.isSystemMessage
            THEN <<NewMessageEvent(systemMessage, Len(withSystem), currentlyTyping)>>
            ELSE <<>>
        membership == SendMembership(sessionMember, u, s)
        row == MessageRow(c.content, MediaUrl(c.mediaFile, now), c.mediaType, u, s)
        withMessage == Append(withSystem, row)
        wasTyping == u \in DOMAIN Entries(currentlyTyping, s)
        cleared == ClearTyping(currentlyTyping, u, s)
    IN
    /\ call = NoCall
    /\ call' = c
    /\ IF c.isSystemMessage /\ s \notin DOMAIN session
       THEN \* the row's session relation refuses the create
            /\ result' = "INTERNAL_SERVER_ERROR"
            /\ emitted' = <<>>
            /\ UNCHANGED <<message, currentlyTyping>>
       ELSE IF membership.id = NoId
       THEN /\ result' = "FORBIDDEN"
            /\ message' = withSystem
            /\ emitted' = systemEvents
            /\ UNCHANGED currentlyTyping
       ELSE IF Falsy(c.content) /\ c.mediaFile = NoFile
       THEN /\ result' = "BAD_REQUEST"
            /\ message' = withSystem
            /\ emitted' = systemEvents
            /\ UNCHANGED currentlyTyping
       ELSE /\ result' = "OK"
            /\ message' = withMessage
            /\ currentlyTyping' = cleared
            /\ emitted' = systemEvents
                          \o (IF wasTyping THEN <<TypingUpdateEvent>> ELSE <<>>)
                          \o <<NewMessageEvent(row, Len(withMessage), cleared)>>
    /\ Len(message') <= MaxMessages
    /\ UNCHANGED listeners
    /\ NotWritten

\* the calls of send
SendCalls ==
    {[MsgCall("send", u, s) EXCEPT !.content = content, !.mediaFile = mediaFile,
                                   !.mediaType = IF mediaFile = NoFile
                                                 THEN NoText ELSE "image",
                                   !.isSystemMessage = sys] :
        u \in Users, s \in SessionIds, content \in Contents,
        mediaFile \in MediaFiles, sys \in BOOLEAN}

\* messageRouter.getSessionMessages
GetSessionMessages(u, s) ==
    /\ call = NoCall
    /\ call' = MsgCall("getSessionMessages", u, s)
    /\ result' = IF ReadMembership(sessionMember, u, s).id = NoId
                 THEN "FORBIDDEN" ELSE "OK"
    /\ emitted' = <<>>
    /\ UNCHANGED msgVars
    /\ Untouched

SetTypingClearsSession(ct, u, s, typing, t) ==
    IF ~typing THEN Remove(ct, s)
    ELSE Put(ct, s, Put(Entries(ct, s), u, [lastTyped |-> t, id |-> u]))

\* currentlyTyping after isTyping({sessionId: s, typing}) by u at time t
SetTyping(ct, u, s, typing, t) ==
    LET init == IF s \in DOMAIN ct THEN ct ELSE Put(ct, s, <<>>)
    IN IF ~typing
       THEN IF u \in DOMAIN init[s]
            THEN LET removed == Put(init, s, Remove(init[s], u))
                 IN IF DOMAIN removed[s] = {} THEN Remove(removed, s)
                    ELSE removed
            ELSE init
       ELSE Put(init, s, Put(init[s], u, [lastTyped |-> t, id |-> u]))

\* messageRouter.isTyping
IsTyping(u, s, typing) ==
    /\ call = NoCall
    /\ call' = [MsgCall("isTyping", u, s) EXCEPT !.typing = typing]
    /\ currentlyTyping' = SetTyping(currentlyTyping, u, s, typing, now)
    /\ result' = "OK"
    /\ emitted' = <<TypingUpdateEvent>>
    /\ UNCHANGED <<message, listeners>>
    /\ NotWritten

ExpiredAfterOneSecond(t, lastTyped) == t - lastTyped > 1000

\* the sweep's test of one entry
Expired(t, lastTyped) == t - lastTyped > TypingTTL

\* the entries of one session the sweep keeps
SweepSession(entries, t) ==
    [u \in {v \in DOMAIN entries : ~Expired(t, entries[v].lastTyped)} |->
        entries[u]]

SweepAllKeepsEmpty(ct, t) == [s \in DOMAIN ct |-> SweepSession(ct[s], t)]

\* currentlyTyping after the sweep: expired entries and empty sessions gone
SweepAll(ct, t) ==
    LET kept == [s \in DOMAIN ct |-> SweepSession(ct[s], t)]
    IN [s \in {x \in DOMAIN kept : DOMAIN kept[x] # {}} |-> kept[s]]

\* typingCleanupInterval's callback
Sweep ==
    LET updated == \E s \in DOMAIN currentlyTyping :
                      DOMAIN SweepSession(currentlyTyping[s], now)
                         # DOMAIN currentlyTyping[s]
    IN /\ call = NoCall
       /\ now = sweepAt
       /\ call' = MsgCall("sweep", NULL, NULL)
       /\ currentlyTyping' = SweepAll(currentlyTyping, now)
       /\ sweepAt' = sweepAt + SweepInterval
       /\ result' = "OK"
       /\ emitted' = IF updated THEN <<TypingUpdateEvent>> ELSE <<>>
       /\ UNCHANGED <<session, sessionMember, moderationAction, now, writes,
                      req, message, listeners, clientVars, busVars>>

\* messageRouter.whoIsTyping: a subscription starts and gets the snapshot
WhoIsTyping(s) ==
    /\ call = NoCall
    /\ call' = MsgCall("whoIsTyping", NULL, s)
    /\ result' = "OK"
    /\ emitted' = <<TypingSnapshot(currentlyTyping, s)>>
    /\ UNCHANGED msgVars
    /\ Untouched

\* messageRouter.onNewMessage: user u's client subscribes to session s
OnNewMessage(u, s) ==
    /\ call = NoCall
    /\ <<u, s>> \notin listeners
    /\ listeners' = listeners \cup {<<u, s>>}
    /\ UNCHANGED <<call, result, emitted, message, currentlyTyping>>
    /\ Untouched

\* the subscription is closed
OffNewMessage(u, s) ==
    /\ call = NoCall
    /\ <<u, s>> \in listeners
    /\ listeners' = listeners \ {<<u, s>>}
    /\ UNCHANGED <<call, result, emitted, message, currentlyTyping>>
    /\ Untouched

\* what the listener l = <<user, session>> is handed of the events evs
Delivered(evs, l) ==
    SelectSeq(evs, LAMBDA e : e.type = "newMessage" /\ e.sessionId = l[2])

NextMsg ==
    \/ Return
    \/ \E c \in SendCalls : Unheard(Send(c))
    \/ \E u \in Users, s \in SessionIds : GetSessionMessages(u, s)
    \/ \E u \in Users, s \in SessionIds, typing \in BOOLEAN :
          Unheard(IsTyping(u, s, typing))
    \/ \E u \in Users, s \in SessionIds : OnNewMessage(u, s)
    \/ \E u \in Users, s \in SessionIds : OffNewMessage(u, s)

SpecMsg == InitMsg /\ [][NextMsg]_vars

\* ------------------------------------------------------------ SpecTyping
\* session 1 with its creator; every other user is a PARTICIPANT or absent
InitTyping ==
    /\ now = 0
    /\ call = NoCall
    /\ result = "none"
    /\ emitted = <<>>
    /\ writes = 0
    /\ req = [k \in 1..MaxRequests |-> NoReq]
    /\ message = <<>>
    /\ currentlyTyping = <<>>
    /\ sweepAt \in {1000, 2000, 3000}
    /\ listeners = {}
    /\ rateLimit = NoRateLimit
    /\ messageQueue = NoQueue
    /\ subscription = <<>>
    /\ registry = <<>>
    /\ \E st \in [Users \ {1} -> {"absent", "PARTICIPANT"}] :
          /\ session = <<[creatorId |-> 1, isActive |-> TRUE, title |-> "created"]>>
          /\ sessionMember = StatusRows(st)
          /\ moderationAction = <<>>

\* the sends of a text without media and without the system flag
TextSendCalls ==
    {[MsgCall("send", u, s) EXCEPT !.content = "hi"] :
        u \in Users, s \in SessionIds}

\* the session ids isTyping is called with: the input is any string, here
\* those of the sessions and one that names no session
TypingSessionIds == 1..(MaxSessions + 1)

NextTyping ==
    \/ Elapse
    \/ Return
    \/ Sweep
    \/ \E c \in TextSendCalls : Unheard(Send(c))
    \/ \E u \in Users, s \in TypingSessionIds, typing \in BOOLEAN :
          Unheard(IsTyping(u, s, typing))
    \/ \E s \in SessionIds : WhoIsTyping(s)

SpecTyping == InitTyping /\ [][NextTyping]_vars

\* ------------------------------------------------------------ properties
IsMutedMember(row) == IsActive(row) /\ ~row.isBanned /\ row.isMuted

\* the caller's row passes send's membership lookup
IsSender(row) == IsActive(row) /\ ~row.isBanned /\ ~row.isMuted

\* the newMessage events among evs
NewMessages(evs) == SelectSeq(evs, LAMBDA e : e.type = "newMessage")

\* C13: while a member's isMuted is true, every send by that member fails
\* with FORBIDDEN and persists nothing; the member's getSessionMessages
\* calls succeed; and a listener of that member is handed every newMessage
\* event of its session.
C13_MutedCannotSend ==
    [][/\ (call'.op = "send" /\ CallerHad(IsMutedMember)) =>
             /\ result' = "FORBIDDEN"
             /\ message' = message
       /\ (call'.op = "getSessionMessages" /\ CallerHad(IsMutedMember)) =>
             result' = "OK"
       /\ \A l \in listeners' :
             (\E i \in RowsOf(sessionMember, l[1], l[2]) :
                 IsMutedMember(sessionMember[i])) =>
                Delivered(emitted', l)
                   = SelectSeq(NewMessages(emitted'),
                               LAMBDA e : e.sessionId = l[2])]_vars

\* C14: a send that returns FORBIDDEN or BAD_REQUEST, whatever its flags,
\* has persisted no message, published no newMessage event and changed no
\* typing entry.
C14_RejectedSendNoWrite ==
    [][(call'.op = "send" /\ result' \in {"FORBIDDEN", "BAD_REQUEST"}) =>
          /\ message' = message
          /\ NewMessages(emitted') = <<>>
          /\ currentlyTyping' = currentlyTyping]_vars

\* C15: an accepted send with text content and no media appends a message
\* row with that content and mediaUrl = null (the only new row unless the
\* system flag is set), leaves the sender without a typing entry for the
\* session and every other typing entry as it was, and publishes exactly one
\* newMessage event carrying that row, emitted when the sender's typing
\* entry was already gone.
C15_AcceptedTextSend ==
    [][(/\ call'.op = "send"
        /\ result' = "OK"
        /\ ~Falsy(call'.content)
        /\ call'.mediaFile = NoFile) =>
          LET id == Len(message')
              u == call'.userId
              s == call'.sessionId
              carrying == SelectSeq(NewMessages(emitted'), LAMBDA e : e.id = id)
          IN /\ Len(message') > Len(message)
             /\ ~call'.isSystemMessage => Len(message') = Len(message) + 1
             /\ SubSeq(message', 1, Len(message)) = message
             /\ message'[id].content = call'.content
             /\ message'[id].mediaUrl = NoUrl
             /\ message'[id].senderId = u
             /\ message'[id].sessionId = s
             /\ u \notin TypingUsers(currentlyTyping', s)
             /\ \A s2 \in SessionIds :
                   TypingUsers(currentlyTyping', s2)
                      = TypingUsers(currentlyTyping, s2) \ (IF s2 = s THEN {u} ELSE {})
             /\ Len(carrying) = 1
             /\ carrying[1].message = message'[id]
             /\ carrying[1].sessionId = s
             /\ u \notin carrying[1].typing]_vars

\* a member who was typing has sent a text: the typing update went out
\* before the message
C15_Witness ==
    /\ call.op = "send"
    /\ result = "OK"
    /\ call.content = "hi"
    /\ call.mediaFile = NoFile
    /\ Len(emitted) = 2
    /\ emitted[1].type = "typingUpdate"
    /\ emitted[2].type = "newMessage"
    /\ call.userId \notin TypingUsers(currentlyTyping, call.sessionId)

\* C16: a send with the system flag set by a caller who has no Active,
\* non-muted membership of the (existing) session succeeds, persists the
\* message and publishes a newMessage event for it.
C16_SystemSendSkipsCheck ==
    [][(/\ call'.op = "send"
        /\ call'.isSystemMessage
        /\ call'.sessionId \in DOMAIN session
        /\ ~CallerHad(IsSender)) =>
          /\ result' = "OK"
          /\ Len(message') = Len(message) + 1
          /\ Len(NewMessages(emitted')) = 1
          /\ NewMessages(emitted')[1].message = message'[Len(message')]]_vars

\* the step is a call by u for session s that takes u's typing entry away:
\* isTyping with typing = false, or a send
ClearsEntry(u, s) ==
    /\ call = NoCall
    /\ call'.userId = u
    /\ call'.sessionId = s
    /\ \/ call'.op = "isTyping" /\ ~call'.typing
       \/ call'.op = "send"

\* C17: a whoIsTyping snapshot never holds an entry that was set TTL or more
\* ago: every user in the snapshot made at time now has
\* lastTyped > now - TTL.
C17_StaleEntryAbsent ==
    [][call'.op = "whoIsTyping" =>
          \A u \in emitted'[1].users :
             now - currentlyTyping[call'.sessionId][u].lastTyped < TypingTTL]_vars

\* C18: an entry set at time T is kept, with lastTyped no earlier than T, by
\* every step that ends before T + TTL, a sweep included, unless the step is
\* the user's own isTyping(false) or send; and a whoIsTyping snapshot holds
\* every entry of its session.
C18_YoungEntryPresent ==
    [][/\ \A s \in DOMAIN currentlyTyping :
             \A u \in DOMAIN currentlyTyping[s] :
                (/\ now' < currentlyTyping[s][u].lastTyped + TypingTTL
                 /\ ~ClearsEntry(u, s)) =>
                   /\ s \in DOMAIN currentlyTyping'
                   /\ u \in DOMAIN currentlyTyping'[s]
                   /\ currentlyTyping'[s][u].lastTyped
                         >= currentlyTyping[s][u].lastTyped
       /\ call'.op = "whoIsTyping" =>
             emitted'[1].users = DOMAIN Entries(currentlyTyping, call'.sessionId)]_vars

\* the sweep has run in the instant an entry was set and has kept it, and
\* has removed another user's entry that had expired
C18_Witness ==
    /\ call.op = "sweep"
    /\ emitted = <<TypingUpdateEvent>>
    /\ \E s \in DOMAIN currentlyTyping :
          \E u \in DOMAIN currentlyTyping[s] :
             currentlyTyping[s][u].lastTyped = now

\* ============================================================ SpecRate
\* The rate limiter of the session page: checkRateLimit, called by
\* handleSendMessage, and the cooldown's interval timer.  Time passes in
\* steps of one second.

\* Maximum messages allowed in the time window
MESSAGE_LIMIT == 5

\* Time window in seconds
TIME_WINDOW == 10

\* Cooldown duration in seconds
COOLDOWN_DURATION == 5

\* a client and a server that have done nothing yet
InitClient ==
    /\ session = <<>>
    /\ sessionMember = <<>>
    /\ moderationAction = <<>>
    /\ now = 0
    /\ call = NoCall
    /\ result = "none"
    /\ emitted = <<>>
    /\ writes = 0
    /\ req = [k \in 1..MaxRequests |-> NoReq]
    /\ message = <<>>
    /\ currentlyTyping = <<>>
    /\ sweepAt = SweepInterval
    /\ listeners = {}
    /\ rateLimit = NoRateLimit
    /\ messageQueue = NoQueue
    /\ subscription = <<>>
    /\ registry = <<>>

\* what the client's steps leave alone on the server
ServerUntouched ==
    UNCHANGED <<session, sessionMember, moderationAction, writes, req, msgVars,
                busVars>>

RecentIgnoringLimit(timestamps, t) == <<>>

\* lastMessageTimestampsRef.current.filter(timestamp => now - timestamp < timeWindow)
Recent(timestamps, t) ==
    SelectSeq(timestamps, LAMBDA x : t - x < TIME_WINDOW * 1000)

\* checkRateLimit at time t: what it returns and the limiter it leaves
CheckRateLimit(rl, t) ==
    LET recent == Recent(rl.lastMessageTimestamps, t)
        filtered == [rl EXCEPT !.lastMessageTimestamps = recent]
    IN IF rl.cooldownActive
       THEN [ok |-> FALSE, rl |-> filtered]
       ELSE IF Len(recent) >= MESSAGE_LIMIT
       THEN [ok |-> FALSE,
             rl |-> [filtered EXCEPT !.cooldownActive = TRUE,
                                     !.cooldownRemaining = COOLDOWN_DURATION,
                                     !.cooldownTimer = t + 1000]]
       ELSE [ok |-> TRUE,
             rl |-> [filtered EXCEPT !.lastMessageTimestamps = Append(recent, t)]]

\* handleSendMessage with a text to send and no send in progress: the rate
\* limit check, then sendMessageMutation.mutateAsync
HandleSendMessage ==
    LET check == CheckRateLimit(rateLimit, now)
    IN /\ call = NoCall
       /\ Len(rateLimit.attempts) < MaxAttempts
       /\ call' = MsgCall("handleSendMessage", NULL, NULL)
       /\ result' = IF check.ok THEN "OK" ELSE "REJECTED"
       /\ emitted' = IF check.ok THEN <<[type |-> "mutateAsync"]>> ELSE <<>>
       /\ rateLimit' = [check.rl EXCEPT
                           !.attempts = Append(@, [at |-> now, accepted |-> check.ok])]
       /\ UNCHANGED <<now, messageQueue>>
       /\ ServerUntouched

\* the cooldown's setInterval callback, one second after the previous one
CooldownTick ==
    /\ call = NoCall
    /\ rateLimit.cooldownTimer # NULL
    /\ now = rateLimit.cooldownTimer
    /\ rateLimit' = IF rateLimit.cooldownRemaining <= 1
                    THEN [rateLimit EXCEPT !.cooldownActive = FALSE,
                                           !.cooldownTimer = NULL,
                                           !.cooldownRemaining = 0]
                    ELSE [rateLimit EXCEPT !.cooldownRemaining = @ - 1,
                                           !.cooldownTimer = @ + 1000]
    /\ UNCHANGED <<now, call, result, emitted, messageQueue>>
    /\ ServerUntouched

\* a second passes on the client; the interval timer fires on time
RateElapse ==
    /\ call = NoCall
    /\ rateLimit.cooldownTimer = NULL \/ now < rateLimit.cooldownTimer
    /\ now + 1000 <= MaxRateSeconds * 1000
    /\ now' = now + 1000
    /\ UNCHANGED <<call, result, emitted, clientVars, busVars>>
    /\ ServerUntouched

NextRate ==
    \/ RateElapse
    \/ Return
    \/ CooldownTick
    \/ HandleSendMessage

SpecRate == InitClient /\ [][NextRate]_vars

\* C19: with the limit of 5 sends per 10 seconds and the cooldown of 5
\* seconds: a send that follows fewer than 5 attempts, the first of them at
\* most 2 seconds ago, is accepted; an immediate 6th send after 5 sends made
\* within 2 seconds is rejected without a call of the mutation and starts
\* the cooldown; and the send attempted next, once the cooldown is over, is
\* accepted.
C19_BurstThenCooldown ==
    [][call'.op = "handleSendMessage" =>
          LET log == rateLimit.attempts
              n == Len(log)
              burst == /\ n >= 5
                       /\ log[5].at - log[1].at <= 2000
          IN /\ (n < 5 /\ (n = 0 \/ now - log[1].at <= 2000)) => result' = "OK"
             /\ (n = 5 /\ burst /\ now = log[5].at) =>
                   /\ result' = "REJECTED"
                   /\ emitted' = <<>>
                   /\ rateLimit'.cooldownActive
             /\ (/\ n = 6 /\ burst /\ log[6].at = log[5].at
                 /\ ~rateLimit.cooldownActive) =>
                   result' = "OK"]_vars

\* ============================================================ SpecQueue
\* useMessageQueue.  A state update is rendered at once; effectPending says
\* that the effect on [queue, isProcessing] has still to run for the latest
\* render.  sendFunction settles when the pipeline decides, the retry delay
\* ends when its timer fires.

MAX_RETRIES == 3

\* what the hook's steps leave alone
QueueUntouched ==
    /\ UNCHANGED <<now, call, result, emitted, rateLimit>>
    /\ ServerUntouched

RemovedNothing(queue, id) == queue

\* prev.filter(m => m.id !== message.id)
Removed(queue, id) == SelectSeq(queue, LAMBDA m : m.id # id)

FinallyWithoutRender(q) ==
    [q EXCEPT !.processingRef = FALSE, !.isProcessing = FALSE,
              !.pc = "idle", !.message = NoMessage]

\* the finally block of processQueue; setIsProcessing(false) makes the
\* effect run again
Finally(q) ==
    [q EXCEPT !.processingRef = FALSE, !.isProcessing = FALSE,
              !.effectPending = TRUE, !.pc = "idle", !.message = NoMessage]

\* MessageInput.sendMessage: onMessageSent(optimisticMessage) adds the
\* optimistic entry with status "sending", then queueMessage(id, ...); ids
\* are those of the messages, in order
QueueMessage(id) ==
    /\ messageQueue.queued < MaxQueued
    /\ id = messageQueue.queued + 1
    /\ messageQueue' = [messageQueue EXCEPT
                           !.messages = Put(@, id, "temp"),
                           !.messageStatus = Put(@, id, "sending"),
                           !.queue = Append(@, [id |-> id, retries |-> 0]),
                           !.effectPending = TRUE,
                           !.queued = id]
    /\ QueueUntouched

\* the 500 ms timer of onMessageSent: the entry's status becomes "sent"
StatusTimer(id) ==
    /\ id \in DOMAIN messageQueue.messageStatus
    /\ messageQueue.messageStatus[id] = "sending"
    /\ messageQueue' = [messageQueue EXCEPT !.messageStatus[id] = "sent"]
    /\ QueueUntouched

\* onData of the page's onNewMessage subscription, for the row of a send
\* that succeeded: the optimistic entry is replaced by the row
OnData(id) ==
    /\ id \in DOMAIN messageQueue.messages
    /\ messageQueue.messages[id] = "temp"
    /\ \E k \in 1..Len(messageQueue.sendLog) :
          messageQueue.sendLog[k].id = id /\ messageQueue.sendLog[k].ok
    /\ messageQueue' = [messageQueue EXCEPT !.messages[id] = "real"]
    /\ QueueUntouched

\* the status the page renders for an own message
MessageStatus(q, id) ==
    IF q.messages[id] = "temp" THEN q.messageStatus[id] ELSE "delivered"

CanProcessWhileProcessing(q) == Len(q.queue) > 0

\* queue.length > 0 && !processingRef.current, the test of the effect and,
\* negated, of processQueue
CanProcess(q) == Len(q.queue) > 0 /\ ~q.processingRef

\* the effect runs: processQueue up to its await of sendFunction
RunEffect ==
    /\ messageQueue.effectPending
    /\ messageQueue' =
          IF CanProcess(messageQueue)
          THEN [messageQueue EXCEPT !.processingRef = TRUE,
                                    !.isProcessing = TRUE,
                                    !.started = @ + 1,
                                    !.effectPending = ~messageQueue.isProcessing,
                                    !.message = messageQueue.queue[1],
                                    !.pc = "sending"]
          ELSE [messageQueue EXCEPT !.effectPending = FALSE]
    /\ QueueUntouched

MayRetryOnce(m) == m.retries < 1

\* message.retries < MAX_RETRIES
MayRetry(m) == m.retries < MAX_RETRIES

\* how sendFunction settles: mutateAsync resolves, or rejects with an error
\* of message.send (FORBIDDEN, BAD_REQUEST) or with one of the transport
SendOutcomes == {"OK", "TRANSIENT", "FORBIDDEN", "BAD_REQUEST"}

\* sendFunction settles: the try or the catch block, up to the retry delay
SendDone(outcome) ==
    LET m == messageQueue.message
        ok == outcome = "OK"
        logged == [messageQueue EXCEPT
                      !.sendLog = Append(@, [id |-> m.id, ok |-> ok,
                                             error |-> outcome])]
    IN /\ messageQueue.pc = "sending"
       /\ messageQueue' =
             IF ok
             THEN Finally([logged EXCEPT !.queue = Removed(@, m.id)])
             ELSE IF MayRetry(m)
             THEN [logged EXCEPT
                      !.queue = Append(Removed(@, m.id),
                                       [m EXCEPT !.retries = @ + 1]),
                      !.effectPending = TRUE,
                      !.pc = "backoff"]
             ELSE Finally([logged EXCEPT !.queue = Removed(@, m.id)])
       /\ QueueUntouched

\* the retry delay is over: the finally block
BackoffDone ==
    /\ messageQueue.pc = "backoff"
    /\ messageQueue' = Finally(messageQueue)
    /\ QueueUntouched

NextQueue ==
    \/ \E id \in 1..MaxQueued : QueueMessage(id)
    \/ RunEffect
    \/ \E outcome \in SendOutcomes : SendDone(outcome)
    \/ BackoffDone
    \/ \E id \in 1..MaxQueued : StatusTimer(id)
    \/ \E id \in 1..MaxQueued : OnData(id)

SpecQueue == InitClient /\ [][NextQueue]_vars

\* C20: with a single message queued and a send function that fails on its
\* first and second call and succeeds on its third: after each failure the
\* message is still queued, with as many retries as calls were made; once
\* the third call has succeeded there have been exactly three calls, one of
\* them successful, none is in flight and the queue is empty.
C20_FailTwiceThenDeliver ==
    LET log == messageQueue.sendLog
        n == Len(log)
    IN messageQueue.queued = 1 =>
          /\ (n \in {1, 2} /\ \A k \in 1..n : ~log[k].ok) =>
                messageQueue.queue = <<[id |-> 1, retries |-> n]>>
          /\ (n >= 3 /\ ~log[1].ok /\ ~log[2].ok /\ log[3].ok) =>
                /\ n = 3
                /\ messageQueue.pc = "idle"
                /\ messageQueue.queue = <<>>
                /\ Cardinality({k \in 1..n : log[k].ok}) = 1

\* the single message was delivered by the third call and the hook is at rest
C20_Witness ==
    /\ messageQueue.queued = 1
    /\ Len(messageQueue.sendLog) = 3
    /\ ~messageQueue.sendLog[1].ok
    /\ ~messageQueue.sendLog[2].ok
    /\ messageQueue.sendLog[3].ok
    /\ messageQueue.queue = <<>>
    /\ ~messageQueue.effectPending
    /\ ~messageQueue.processingRef

\* the errors after which a send is not to be made again
TerminalErrors == {"FORBIDDEN", "NOT_FOUND", "BAD_REQUEST"}

\* C21: a message whose send failed with Forbidden, NotFound or BadRequest
\* is not sent again: in the log of the calls of sendFunction no call for a
\* message follows a call for the same message that failed with one of these
\* errors, and once such a failure is handled the message is not queued.
C21_TerminalErrorNotRetried ==
    LET log == messageQueue.sendLog
    IN \A k \in 1..Len(log) :
          log[k].error \in TerminalErrors =>
              /\ \A j \in (k + 1)..Len(log) : log[j].id # log[k].id
              /\ \A i \in 1..Len(messageQueue.queue) :
                     messageQueue.queue[i].id # log[k].id

\* the calls of sendFunction made for a message so far
Attempts(id) ==
    {k \in 1..Len(messageQueue.sendLog) : messageQueue.sendLog[k].id = id}

\* the message was dropped: MAX_RETRIES + 1 calls failed and it is queued
\* no more
Dropped(id) ==
    /\ Cardinality(Attempts(id)) = MAX_RETRIES + 1
    /\ \A k \in Attempts(id) : ~messageQueue.sendLog[k].ok
    /\ \A i \in 1..Len(messageQueue.queue) : messageQueue.queue[i].id # id

\* C22: once a message is dropped after its retries, the page's message
\* list either holds no entry for it or shows the entry neither as sending
\* nor as sent.
C22_DroppedMessageShownFailed ==
    \A id \in DOMAIN messageQueue.messages :
        Dropped(id) =>
            MessageStatus(messageQueue, id) \notin {"sending", "sent"}

\* the rows that the last step changed
ChangedRows ==
    {i \in DOMAIN sessionMember' :
        i \notin DOMAIN sessionMember \/ sessionMember'[i] # sessionMember[i]}

\* C23: a leave call is accepted only when the caller had an Active
\* membership of the session; an accepted call changes that one row and
\* nothing else of it than leftAt, which it sets, and emits one userLeft
\* event for the caller; when the caller created the session it also makes
\* the session inactive and emits one sessionEnded event, after the
\* userLeft event; otherwise it leaves the session table as it was. A
\* rejected call changes and emits nothing.
C23_Leave ==
    [][call'.op = "leave" =>
          LET u == call'.userId
              s == call'.sessionId
          IN IF result' = "OK"
             THEN /\ CallerHad(IsActiveRow)
                  /\ \E i \in RowsOf(sessionMember, u, s) :
                        /\ IsActive(sessionMember[i])
                        /\ ChangedRows = {i}
                        /\ sessionMember'[i].leftAt # NULL
                        /\ sessionMember'[i] =
                              [sessionMember[i] EXCEPT
                                  !.leftAt = sessionMember'[i].leftAt]
                        /\ emitted'[1] =
                              SessionEvent("userLeft", s, sessionMember[i])
                  /\ moderationAction' = moderationAction
                  /\ IF session[s].creatorId = u
                     THEN /\ session' = [session EXCEPT ![s].isActive = FALSE]
                          /\ Len(emitted') = 2
                          /\ emitted'[2] = SessionEndedEvent(s)
                     ELSE /\ session' = session
                          /\ Len(emitted') = 1
             ELSE /\ ~CallerHad(IsActiveRow)
                  /\ db' = db
                  /\ emitted' = <<>>]_vars

\* the creator of an active session has just left it
C23_Witness ==
    /\ call.op = "leave"
    /\ result = "OK"
    /\ session[call.sessionId].creatorId = call.userId
    /\ ~session[call.sessionId].isActive
    /\ Len(emitted) = 2

\* requests j and k are a ban and a kick, two bans or two kicks of the same
\* member of the same session, and both have returned
ConflictingDone(j, k) ==
    /\ j # k
    /\ req[j].pc = "done"
    /\ req[k].pc = "done"
    /\ req[j].call.op \in {"banUser", "kickUser"}
    /\ req[k].call.op \in {"banUser", "kickUser"}
    /\ req[j].call.sessionId = req[k].call.sessionId
    /\ req[j].call.targetUserId = req[k].call.targetUserId

\* C24: two concurrent ban or kick calls on the same membership have the
\* results of one of their two sequential executions. Run one after the
\* other, the first accepted call sets the target's leftAt and the second
\* finds no Active target, so at most one of the two is accepted and at most
\* one audit record is written for the membership.
C24_ConflictingCallsSerialized ==
    \A j, k \in Slots :
        ConflictingDone(j, k) =>
            /\ ~(req[j].result = "OK" /\ req[k].result = "OK")
            /\ \A i \in RowsOf(sessionMember, req[j].call.targetUserId,
                                req[j].call.sessionId) :
                   Cardinality({a \in DOMAIN moderationAction :
                                  moderationAction[a].sessionMemberId = i}) <= 1

\* C25: a changeRole call is accepted only when the caller had an Active
\* membership with role MODERATOR; a caller whose Active membership has
\* another role gets FORBIDDEN; an accepted call emits one roleChanged event
\* whose oldRole is the role the target's Active membership had before the
\* call and whose newRole is the requested role.
C25_ChangeRole ==
    [][call'.op = "changeRole" =>
          /\ result' = "OK" => CallerHad(IsActiveModerator)
          /\ (CallerHad(IsActiveRow) /\ ~CallerHad(IsActiveModerator)) =>
                 /\ result' = "FORBIDDEN"
                 /\ db' = db
                 /\ emitted' = <<>>
          /\ result' = "OK" =>
                 \E i \in RowsOf(sessionMember, call'.targetUserId,
                                 call'.sessionId) :
                     /\ IsActive(sessionMember[i])
                     /\ sessionMember'[i].role = call'.role
                     /\ emitted' =
                           <<[type |-> "roleChanged",
                              sessionId |-> call'.sessionId,
                              userId |-> call'.targetUserId,
                              oldRole |-> sessionMember[i].role,
                              newRole |-> call'.role,
                              changedBy |-> call'.userId]>>]_vars

\* an accepted changeRole has given its target another role
C25_Witness ==
    /\ call.op = "changeRole"
    /\ result = "OK"
    /\ Len(emitted) = 1
    /\ emitted[1].oldRole # emitted[1].newRole

\* an EVALUATOR's changeRole call was refused
C25_WitnessEvaluator ==
    /\ call.op = "changeRole"
    /\ result = "FORBIDDEN"
    /\ \E i \in RowsOf(sessionMember, call.userId, call.sessionId) :
          IsActiveEvaluator(sessionMember[i])

\* the entries <<session, user>> of a typing map
TypingEntries(ct) ==
    {e \in TypingSessionIds \X Users :
        e[1] \in DOMAIN ct /\ e[2] \in DOMAIN ct[e[1]]}

\* C26: one pass of the sweep removes, in every session, the entries whose
\* lastTyped is more than the TTL ago and no other, leaves the kept entries
\* as they were, leaves no session with an empty map, and emits one
\* typingUpdate event when it removed an entry and none when it did not.
C26_SweepPass ==
    [][call'.op = "sweep" =>
          LET old == TypingEntries(currentlyTyping)
              stale == {e \in old :
                          now - currentlyTyping[e[1]][e[2]].lastTyped > TypingTTL}
          IN /\ TypingEntries(currentlyTyping') = old \ stale
             /\ \A e \in old \ stale :
                   currentlyTyping'[e[1]][e[2]] = currentlyTyping[e[1]][e[2]]
             /\ \A s \in DOMAIN currentlyTyping' :
                   DOMAIN currentlyTyping'[s] # {}
             /\ emitted' = IF stale # {} THEN <<TypingUpdateEvent>> ELSE <<>>
      ]_vars

\* a pass has removed every entry there was and emitted one event
C26_Witness ==
    /\ call.op = "sweep"
    /\ Len(emitted) = 1
    /\ currentlyTyping = <<>>
    /\ now >= 4000

\* C27: every isTyping call emits one typingUpdate event, also a call with
\* typing = false by a user who has no entry; with typing = true the
\* caller's entry of the session is there afterwards with lastTyped = now,
\* with typing = false it is not; the entries of other users and the maps of
\* other sessions are as before.
C27_SetTyping ==
    [][call'.op = "isTyping" =>
          LET u == call'.userId
              s == call'.sessionId
              others == (TypingSessionIds \X Users) \ {<<s, u>>}
          IN /\ emitted' = <<TypingUpdateEvent>>
             /\ IF call'.typing
                THEN /\ <<s, u>> \in TypingEntries(currentlyTyping')
                     /\ currentlyTyping'[s][u].lastTyped = now
                ELSE <<s, u>> \notin TypingEntries(currentlyTyping')
             /\ TypingEntries(currentlyTyping') \cap others =
                   TypingEntries(currentlyTyping) \cap others
             /\ \A e \in TypingEntries(currentlyTyping) \cap others :
                   currentlyTyping'[e[1]][e[2]] = currentlyTyping[e[1]][e[2]]
             /\ \A x \in TypingSessionIds \ {s} :
                   Entries(currentlyTyping', x) = Entries(currentlyTyping, x)
                   /\ (x \in DOMAIN currentlyTyping'
                         <=> x \in DOMAIN currentlyTyping)]_vars

\* a call with typing = false by a user without an entry has emitted its
\* event, while another user has an entry in another session
C27_Witness ==
    /\ call.op = "isTyping"
    /\ ~call.typing
    /\ emitted = <<TypingUpdateEvent>>
    /\ call.sessionId \in DOMAIN currentlyTyping
    /\ currentlyTyping[call.sessionId] = <<>>
    /\ \E e \in TypingEntries(currentlyTyping) : e[2] # call.userId

\* ============================================================== SpecBus
\* The two event emitters and the subscription procedures of both routers:
\* two sessions of user 1, the last user a participant of the first. The
\* last user joins, is kicked and types, user 1 sends and leaves, while
\* clients subscribe and cancel.
MaxSubscriptions == 2

\* how many events a transport takes in this model
MaxReceived == 2

\* how many mutations write to the database in this model
MaxBusWrites == 1
MaxMinutes == 2

BusSessionIds == 1..(MaxSessions + 1)

\* the events a subscription procedure listens to, of those the handlers of
\* this specification emit
EventNames ==
    {"userJoined", "userKicked", "sessionEnded", "newMessage", "typingUpdate"}

\* the listeners registered for an event, in the order of registration
Listeners(reg, name) == IF name \in DOMAIN reg THEN reg[name] ELSE <<>>

ForwardUnfiltered(sub, e, ct) ==
    IF e.type = "typingUpdate"
    THEN <<TypingSnapshot(ct, sub.sessionId)>>
    ELSE <<e>>

\* the listener of subscription sub, called with event e: what it passes to
\* emit.next. onTypingUpdate takes no data and reads currentlyTyping
Forward(sub, e, ct) ==
    IF e.type = "typingUpdate"
    THEN <<TypingSnapshot(ct, sub.sessionId)>>
    ELSE IF e.sessionId = sub.sessionId THEN <<e>> ELSE <<>>

EmitNextFirst(received, data) == data \o received

\* emit.next(data): the transport takes data after what it has
EmitNext(received, data) == received \o data

RECURSIVE EmitTo(_, _, _, _)
\* emitter.emit(e.type, e): the listeners ls are called one after the other
EmitTo(subs, ls, e, ct) ==
    IF ls = <<>> THEN subs
    ELSE EmitTo([subs EXCEPT ![Head(ls)].received =
                                 EmitNext(@, Forward(subs[Head(ls)], e, ct))],
                Tail(ls), e, ct)

RECURSIVE EmitAll(_, _, _, _)
\* the emits of one handler, in order
EmitAll(subs, reg, evs, ct) ==
    IF evs = <<>> THEN subs
    ELSE EmitAll(EmitTo(subs, Listeners(reg, Head(evs).type), Head(evs), ct),
                 reg, Tail(evs), ct)

InitBus ==
    /\ now = 1
    /\ call = NoCall
    /\ result = "none"
    /\ emitted = <<>>
    /\ writes = 0
    /\ req = [k \in 1..MaxRequests |-> NoReq]
    /\ message = <<>>
    /\ currentlyTyping = <<>>
    /\ sweepAt = 3000
    /\ listeners = {}
    /\ rateLimit = NoRateLimit
    /\ messageQueue = NoQueue
    /\ subscription = <<>>
    /\ registry = <<>>
    /\ session = [s \in BusSessionIds |-> [creatorId |-> 1, isActive |-> TRUE, title |-> "created"]]
    /\ sessionMember =
          [id \in {<<1, s, 1>> : s \in BusSessionIds} \cup {<<NumUsers, 1, 1>>} |->
              NewMember(id[1], id[2],
                        IF id[1] = 1 THEN "MODERATOR" ELSE "PARTICIPANT")]
    /\ moderationAction = <<>>

OffKeepsListener(ls, i) == ls

\* emitter.off(name, listener)
Off(ls, i) == SelectSeq(ls, LAMBDA l : l # i)

\* a subscription procedure is called for session s: the observable
\* registers its listener; whoIsTyping first sends the initial state. For a
\* newMessage subscription since records how many rows table messages had
\* then
Subscribe(name, s) ==
    LET i == Len(subscription) + 1
    IN /\ call = NoCall
       /\ i <= MaxSubscriptions
       /\ subscription' =
             Append(subscription,
                    [name |-> name, sessionId |-> s, open |-> TRUE,
                     since |-> IF name = "newMessage" THEN Len(message) ELSE 0,
                     received |-> IF name = "typingUpdate"
                                  THEN <<TypingSnapshot(currentlyTyping, s)>>
                                  ELSE <<>>])
       /\ registry' = Put(registry, name, Append(Listeners(registry, name), i))
       /\ UNCHANGED <<session, sessionMember, moderationAction, now, call,
                      result, emitted, writes, req, msgVars, clientVars>>

\* the client cancels subscription i: the observable's teardown
Unsubscribe(i) ==
    /\ call = NoCall
    /\ i \in DOMAIN subscription
    /\ subscription[i].open
    /\ subscription' = [subscription EXCEPT ![i].open = FALSE]
    /\ registry' = [registry EXCEPT ![subscription[i].name] = Off(@, i)]
    /\ UNCHANGED <<session, sessionMember, moderationAction, now, call,
                   result, emitted, writes, req, msgVars, clientVars>>

\* the events a handler emitted reach the listeners registered
Heard ==
    /\ subscription' = EmitAll(subscription, registry, emitted', currentlyTyping')
    /\ registry' = registry
    /\ \A i \in DOMAIN subscription' :
          Len(subscription'[i].received) <= MaxReceived

\* a mutation of the session router and its emits
SessionCall(A) ==
    /\ call = NoCall
    /\ A
    /\ writes' = IF db' = db THEN writes ELSE writes + 1
    /\ writes' <= MaxBusWrites
    /\ UNCHANGED <<msgVars, clientVars>>
    /\ Heard

\* a mutation of the message router and its emits
MessageCall(A) == A /\ Heard

NextBus ==
    \/ Return
    \/ \E name \in EventNames, s \in BusSessionIds : Subscribe(name, s)
    \/ \E i \in 1..MaxSubscriptions : Unsubscribe(i)
    \/ \E s \in BusSessionIds : SessionCall(Join(NumUsers, s, NoRole))
    \/ \E s \in BusSessionIds : SessionCall(Leave(1, s))
    \/ \E s \in BusSessionIds : SessionCall(KickUser(1, s, NumUsers, 0))
    \/ \E s \in BusSessionIds :
          MessageCall(Send([MsgCall("send", 1, s) EXCEPT !.content = "hi"]))
    \/ \E s \in BusSessionIds : MessageCall(IsTyping(NumUsers, s, TRUE))

SpecBus == InitBus /\ [][NextBus]_vars

\* what subscription i received in the last step
NewlyReceived(i) ==
    SubSeq(subscription'[i].received, Len(subscription[i].received) + 1,
           Len(subscription'[i].received))

\* the events among evs named name
Named(evs, name) == SelectSeq(evs, LAMBDA e : e.type = name)

\* C28: an open subscription for session S is passed, of the events of its
\* name that a handler emits, those whose sessionId is S, all of them and
\* nothing else; an open typing subscription for S is passed, for every
\* typingUpdate event, the snapshot of S's typing map; and nothing a
\* subscription has received is of another session.
C28_SubscriptionFilters ==
    [][\A i \in DOMAIN subscription :
          LET sub == subscription[i] IN
          /\ sub.open =>
                NewlyReceived(i) =
                   IF sub.name = "typingUpdate"
                   THEN [k \in 1..Len(Named(emitted', "typingUpdate")) |->
                            TypingSnapshot(currentlyTyping', sub.sessionId)]
                   ELSE SelectSeq(Named(emitted', sub.name),
                                  LAMBDA e : e.sessionId = sub.sessionId)
          /\ \A k \in 1..Len(subscription'[i].received) :
                subscription'[i].received[k].sessionId = sub.sessionId]_vars

\* two subscriptions of the same event are open for the two sessions; the
\* event just emitted was passed to the one of its session only
C28_Witness ==
    \E i, j \in DOMAIN subscription :
        /\ subscription[i].open
        /\ subscription[j].open
        /\ subscription[i].name = subscription[j].name
        /\ subscription[i].sessionId # subscription[j].sessionId
        /\ Len(emitted) = 1
        /\ emitted[1].type = subscription[i].name
        /\ emitted[1].type # "typingUpdate"
        /\ subscription[j].received = emitted
        /\ subscription[i].received = <<>>

\* the ids of the rows k of session s with from < k, in creation order
RECURSIVE RowsSince(_, _, _)
RowsSince(rows, s, from) ==
    IF from >= Len(rows) THEN <<>>
    ELSE (IF rows[from + 1].sessionId = s THEN <<from + 1>> ELSE <<>>)
         \o RowsSince(rows, s, from + 1)

\* C29: an open newMessage subscription for session S has received the
\* events of the rows of S created since it was registered, each once and
\* in the order of their creation, which is the order of the emits; it has
\* received no event of a row created before it was registered.
C29_PublishOrderNoReplay ==
    \A i \in DOMAIN subscription :
        LET sub == subscription[i] IN
        (sub.open /\ sub.name = "newMessage") =>
            [k \in 1..Len(sub.received) |-> sub.received[k].id] =
                RowsSince(message, sub.sessionId, sub.since)

\* one subscription was registered before two sends and received both in
\* order; another, registered between them, received the second only
C29_Witness ==
    \E i, j \in DOMAIN subscription :
        /\ subscription[i].open
        /\ subscription[j].open
        /\ subscription[i].name = "newMessage"
        /\ subscription[j].name = "newMessage"
        /\ subscription[i].sessionId = subscription[j].sessionId
        /\ subscription[i].since = 0
        /\ subscription[j].since = 1
        /\ Len(subscription[i].received) = 2
        /\ subscription[i].received[1].id = 1
        /\ subscription[i].received[2].id = 2
        /\ subscription[j].received = <<subscription[i].received[2]>>

\* the listeners registered for name are those of the open subscriptions of
\* that name, one each
RegisteredAreOpen(subs, reg, name) ==
    LET ls == Listeners(reg, name)
    IN /\ \A a, b \in 1..Len(ls) : ls[a] = ls[b] => a = b
       /\ {ls[a] : a \in 1..Len(ls)} =
             {i \in DOMAIN subs : subs[i].open /\ subs[i].name = name}

\* C30: after every step the listeners registered for each event are those
\* of the subscriptions still open, one each, so that cancelling removes the
\* subscription's one listener; and a cancelled subscription is passed
\* nothing more.
C30_ListenersAreOpenSubscriptions ==
    [][/\ \A name \in EventNames :
             RegisteredAreOpen(subscription', registry', name)
       /\ \A i \in DOMAIN subscription :
             ~subscription[i].open =>
                 /\ ~subscription'[i].open
                 /\ subscription'[i].received = subscription[i].received]_vars

\* of two subscriptions of the same event and session one was cancelled; the
\* event emitted since then reached the other only
C30_Witness ==
    \E i, j \in DOMAIN subscription :
        /\ ~subscription[i].open
        /\ subscription[j].open
        /\ subscription[i].name = subscription[j].name
        /\ subscription[i].sessionId = subscription[j].sessionId
        /\ subscription[i].name # "typingUpdate"
        /\ Len(emitted) = 1
        /\ subscription[j].received = emitted
        /\ subscription[i].received = <<>>
        /\ Listeners(registry, subscription[i].name) = <<j>>

\* the calls of sendFunction that were started and have not settled
InFlight(q) == q.started - Len(q.sendLog)

\* C31: at most one call of sendFunction is in flight after every step; a
\* call is started only while none is in flight and no backoff is being
\* waited for, also when a message is queued meanwhile, and it is made for
\* the message that is then first in the queue.
C31_SingleInFlightHeadFirst ==
    [][/\ InFlight(messageQueue') <= 1
       /\ messageQueue'.started # messageQueue.started =>
             /\ messageQueue'.started = messageQueue.started + 1
             /\ InFlight(messageQueue) = 0
             /\ messageQueue.pc = "idle"
             /\ messageQueue'.message = messageQueue.queue[1]]_vars

\* a second message was queued while the first was being sent, the first
\* failed and waits at the tail, and the send of the second is in flight
C31_Witness ==
    /\ Len(messageQueue.queue) = 2
    /\ messageQueue.pc = "sending"
    /\ messageQueue.message.id = 2
    /\ messageQueue.queue[2] = [id |-> 1, retries |-> 1]
    /\ InFlight(messageQueue) = 1

\* the ids of the queued messages, in queue order
QueueIds(q) == [i \in 1..Len(q.queue) |-> q.queue[i].id]

\* C32: a message is queued at the tail with retries 0. When a call of
\* sendFunction fails for a message with retries below 3, the message goes
\* to the tail with retries one higher, the others keep their order, and
\* no call is started until the delay is over; when it fails with retries
\* 3 the message leaves the queue. So the retries of a queued message count
\* its failed calls, no message has more than 4 calls, and a message with
\* 4 failed calls is queued no more.
C32_RetryCounter ==
    [][LET q == messageQueue
           r == messageQueue'
           m == q.message
       IN /\ r.queued # q.queued =>
                r.queue = Append(q.queue, [id |-> r.queued, retries |-> 0])
          /\ (Len(r.sendLog) # Len(q.sendLog) /\ ~r.sendLog[Len(r.sendLog)].ok) =>
                IF m.retries < 3
                THEN /\ Len(r.queue) > 0
                     /\ r.queue[Len(r.queue)] =
                           [id |-> m.id, retries |-> m.retries + 1]
                     /\ QueueIds(r) =
                           SelectSeq(QueueIds(q), LAMBDA id : id # m.id)
                              \o <<m.id>>
                     /\ r.pc = "backoff"
                     /\ r.processingRef
                ELSE /\ m.retries = 3
                     /\ QueueIds(r) =
                           SelectSeq(QueueIds(q), LAMBDA id : id # m.id)
                     /\ r.pc = "idle"
          /\ q.pc = "backoff" => r.started = q.started
          /\ \A i \in 1..Len(r.queue) :
                LET calls == {k \in 1..Len(r.sendLog) :
                                r.sendLog[k].id = r.queue[i].id}
                IN /\ r.queue[i].retries = Cardinality(calls)
                   /\ \A k \in calls : ~r.sendLog[k].ok
          /\ \A id \in 1..r.queued :
                LET calls == {k \in 1..Len(r.sendLog) : r.sendLog[k].id = id}
                IN /\ Cardinality(calls) <= 4
                   /\ (Cardinality(calls) = 4
                          /\ \A k \in calls : ~r.sendLog[k].ok) =>
                         \A i \in 1..Len(r.queue) : r.queue[i].id # id]_vars

\* a message whose four calls all failed has left the queue, which still
\* holds the other message
C32_Witness ==
    /\ Dropped(1)
    /\ messageQueue.pc = "idle"
    /\ Len(messageQueue.queue) = 1
    /\ messageQueue.queue[1].id = 2

\* ---------------------------------------------------------- SpecQueueFair
\* The hook alone, with sends that succeed or fail: React runs a due effect,
\* a call of sendFunction settles and the retry timer fires.
NextQueueFair ==
    \/ \E id \in 1..MaxQueued : QueueMessage(id)
    \/ RunEffect
    \/ \E outcome \in {"OK", "TRANSIENT"} : SendDone(outcome)
    \/ BackoffDone

SpecQueueFair ==
    /\ InitClient
    /\ [][NextQueueFair]_vars
    /\ WF_vars(RunEffect)
    /\ WF_vars(\E outcome \in {"OK", "TRANSIENT"} : SendDone(outcome))
    /\ WF_vars(BackoffDone)

\* message id is queued
InQueue(id) ==
    \E i \in 1..Len(messageQueue.queue) : messageQueue.queue[i].id = id

\* C33: while the queue is not empty a send is in flight, a retry delay is
\* being waited for or the effect is due; and every queued message
\* eventually is queued no more.
C33_QueueDrains ==
    /\ [](Len(messageQueue.queue) > 0 =>
            \/ messageQueue.pc \in {"sending", "backoff"}
            \/ messageQueue.effectPending)
    /\ \A id \in 1..MaxQueued : InQueue(id) ~> ~InQueue(id)

\* both messages were queued and have left the queue, one after a retry
C33_Witness ==
    /\ messageQueue.queued = MaxQueued
    /\ messageQueue.queue = <<>>
    /\ messageQueue.pc = "idle"
    /\ ~messageQueue.effectPending
    /\ \E k \in 1..Len(messageQueue.sendLog) : ~messageQueue.sendLog[k].ok


\* ------------------------------------------------------------------ C34
\* the accepted attempts of the log made less than TIME_WINDOW seconds
\* before t, t included
AcceptedInWindow(log, t) ==
    {i \in 1..Len(log) : /\ log[i].accepted
                         /\ log[i].at <= t
                         /\ t - log[i].at < TIME_WINDOW * 1000}

Elements(seq) == {seq[i] : i \in 1..Len(seq)}

\* C34: for one client, whenever handleSendMessage runs: an attempt made
\* while the cooldown is active is rejected and sendMessageMutation is not
\* called; a rejected attempt adds no timestamp to the window (the list
\* gets no longer and holds only timestamps it held before); and after an
\* accepted attempt at most MESSAGE_LIMIT accepted attempts lie in the
\* TIME_WINDOW seconds that end with it, so no window of that length ever
\* holds more.
C34_RateLimiter ==
    [][call'.op = "handleSendMessage" =>
          /\ rateLimit.cooldownActive =>
                /\ result' = "REJECTED"
                /\ emitted' = <<>>
          /\ result' = "REJECTED" =>
                /\ emitted' = <<>>
                /\ Len(rateLimit'.lastMessageTimestamps)
                      <= Len(rateLimit.lastMessageTimestamps)
                /\ Elements(rateLimit'.lastMessageTimestamps)
                      \subseteq Elements(rateLimit.lastMessageTimestamps)
          /\ result' = "OK" =>
                /\ emitted' = <<[type |-> "mutateAsync"]>>
                /\ Cardinality(AcceptedInWindow(rateLimit'.attempts, now))
                      <= MESSAGE_LIMIT]_vars

\* five sends were accepted, a sixth was rejected and started the cooldown,
\* a seventh was rejected during the cooldown, and a later one was accepted
\* TIME_WINDOW seconds or more after the first while earlier accepted sends
\* were still inside the window
C34_Witness ==
    LET log == rateLimit.attempts
        n == Len(log)
    IN /\ n >= 8
       /\ Cardinality({i \in 1..n : ~log[i].accepted}) >= 2
       /\ \E i \in 2..n : ~log[i].accepted /\ ~log[i - 1].accepted
       /\ log[n].accepted
       /\ log[n].at - log[1].at >= TIME_WINDOW * 1000
       /\ Cardinality(AcceptedInWindow(log, log[n].at)) >= 2


\* ------------------------------------------------------------------ C35
BannedRows(rows, u, s) ==
    {i \in DOMAIN rows : /\ rows[i].userId = u
                         /\ rows[i].sessionId = s
                         /\ rows[i].isBanned}

\* C35: in every state a membership with isBanned = TRUE has leftAt set, and
\* a mutation that authorizes its caller by an Active membership (banUser,
\* kickUser, muteUser, unmuteUser, changeRole) made by a user whose
\* membership in the session is banned is refused with FORBIDDEN and
\* changes nothing.
C35_BannedHasLeft ==
    /\ [](\A i \in DOMAIN sessionMember :
             sessionMember[i].isBanned => sessionMember[i].leftAt # NULL)
    /\ [][(/\ call'.op \in ModerationOps
           /\ BannedRows(sessionMember, call'.userId, call'.sessionId) # {}) =>
             /\ result' = "FORBIDDEN"
             /\ emitted' = <<>>
             /\ db' = db]_vars

\* a banned MODERATOR has called a moderation mutation on a member who is
\* still Active, and was refused
C35_Witness ==
    /\ call.op \in ModerationOps
    /\ result = "FORBIDDEN"
    /\ \E i \in BannedRows(sessionMember, call.userId, call.sessionId) :
          sessionMember[i].role = "MODERATOR"
    /\ \E i \in DOMAIN sessionMember :
          /\ sessionMember[i].userId = call.targetUserId
          /\ sessionMember[i].sessionId = call.sessionId
          /\ sessionMember[i].leftAt = NULL


\* ------------------------------------------------------------------ C36
SessionEndedEvents(evs, s) ==
    {i \in 1..Len(evs) : evs[i].type = "sessionEnded" /\ evs[i].sessionId = s}

\* C36: a session whose isActive is FALSE keeps it FALSE in every step, and
\* every accepted endSession and every accepted leave by the session's
\* creator leaves the session inactive and emits exactly one sessionEnded
\* event, for that session.
C36_EndedStaysEnded ==
    [][/\ \A s \in DOMAIN session :
             ~session[s].isActive =>
                s \in DOMAIN session' /\ ~session'[s].isActive
       /\ (/\ result' = "OK"
           /\ \/ call'.op = "endSession"
              \/ /\ call'.op = "leave"
                 /\ session[call'.sessionId].creatorId = call'.userId) =>
             /\ ~session'[call'.sessionId].isActive
             /\ Cardinality(SessionEndedEvents(emitted', call'.sessionId)) = 1
             /\ \A i \in 1..Len(emitted') :
                   emitted'[i].type = "sessionEnded" =>
                      emitted'[i].sessionId = call'.sessionId]_vars

\* updateSession was accepted on a session that had been ended, and renamed it
C36_Witness ==
    /\ call.op = "updateSession"
    /\ result = "OK"
    /\ ~session[call.sessionId].isActive
    /\ session[call.sessionId].title = "renamed"


\* ------------------------------------------------------------------ C37
\* C37: every send that returns success, whatever its content, mediaFile
\* and isSystemMessage, has added exactly one row to the table of messages
\* and published exactly one newMessage event.
C37_SuccessOneMessageOneEvent ==
    [][(call'.op = "send" /\ result' = "OK") =>
          /\ Len(message') = Len(message) + 1
          /\ Len(NewMessages(emitted')) = 1]_vars


\* ------------------------------------------------------------------ C38
\* the Active MODERATOR or EVALUATOR rows of user u in session s
ActiveModeratorRows(rows, u, s) ==
    {i \in DOMAIN rows : /\ rows[i].userId = u
                         /\ rows[i].sessionId = s
                         /\ rows[i].role \in ModeratorRoles
                         /\ rows[i].leftAt = NULL}

\* C38: under every interleaving of requests, when the write of a banUser,
\* kickUser or muteUser commits, its caller has an Active MODERATOR or
\* EVALUATOR membership in the session at that moment.
C38_ActorActiveAtCommit ==
    [][\A k \in Slots :
          (/\ req[k].pc = "write"
           /\ req'[k].pc = "done"
           /\ req'[k].result = "OK"
           /\ req[k].call.op \in {"banUser", "kickUser", "muteUser"}) =>
             ActiveModeratorRows(sessionMember, req[k].call.userId,
                                 req[k].call.sessionId) # {}]_vars


\* ============================================================= SpecMute
\* The two routers on one database, with the minutes of a mute passing:
\* user 1 created session 1 and the other users are its PARTICIPANTs.

InitMute ==
    /\ now = 1
    /\ call = NoCall
    /\ result = "none"
    /\ emitted = <<>>
    /\ writes = 0
    /\ req = [k \in 1..MaxRequests |-> NoReq]
    /\ message = <<>>
    /\ currentlyTyping = <<>>
    /\ sweepAt = SweepInterval
    /\ listeners = {}
    /\ rateLimit = NoRateLimit
    /\ messageQueue = NoQueue
    /\ subscription = <<>>
    /\ registry = <<>>
    /\ session = <<[creatorId |-> 1, isActive |-> TRUE, title |-> "created"]>>
    /\ sessionMember =
          [id \in {<<u, 1, 1>> : u \in Users} |->
              NewMember(id[1], 1, IF id[1] = 1 THEN "MODERATOR" ELSE "PARTICIPANT")]
    /\ moderationAction = <<>>

\* a minute passes; no code runs
MinutePasses ==
    /\ call = NoCall
    /\ now + 60 * 1000 <= 1 + MaxMinutes * 60 * 1000
    /\ now' = now + 60 * 1000
    /\ UNCHANGED <<session, sessionMember, moderationAction, call, result,
                   emitted, writes, req, msgVars, clientVars, busVars>>

\* the text sends of the session's users, with and without isSystemMessage
MuteSendCalls ==
    {c \in SendCalls : c.content = "hi" /\ c.mediaFile = NoFile}

NextMute ==
    \/ MinutePasses
    \/ Return
    \/ \E u, t \in Users, s \in SessionIds, d \in MuteDurations :
          Mutation(MuteUser(u, s, t, d, 0))
    \/ \E u, t \in Users, s \in SessionIds : Mutation(UnmuteUser(u, s, t))
    \/ \E u \in Users, s \in SessionIds : Mutation(Leave(u, s))
    \/ \E u, t \in Users, s \in SessionIds : Mutation(KickUser(u, s, t, 0))
    \/ \E c \in MuteSendCalls : Unheard(Send(c))

SpecMute == InitMute /\ [][NextMute]_vars

C39_WitnessLeft ==
    /\ call.op \in {"leave", "kickUser"}
    /\ result = "OK"
    /\ \E i \in DOMAIN sessionMember :
          /\ sessionMember[i].isMuted
          /\ sessionMember[i].leftAt # NULL
          /\ ExpiredMutes(i) # {}


\* ------------------------------------------------------------------ C40
\* user u has an Active membership of session s that is not banned
HasMembership(rows, u, s) ==
    \E i \in RowsOf(rows, u, s) : rows[i].leftAt = NULL /\ ~rows[i].isBanned

\* C40: a user without an Active, non-banned membership of a session (never
\* joined, left, kicked or banned) is handed no newMessage event of that
\* session by an onNewMessage subscription, and an isTyping call of such a
\* user leaves no entry of the user in the session's typing map.
C40_OutsiderSeesAndTypesNothing ==
    [][/\ \A l \in listeners' :
             ~HasMembership(sessionMember', l[1], l[2]) =>
                Delivered(emitted', l) = <<>>
       /\ (/\ call'.op = "isTyping"
           /\ ~HasMembership(sessionMember, call'.userId, call'.sessionId)) =>
             call'.userId \notin DOMAIN Entries(currentlyTyping', call'.sessionId)]_vars

====
